---- MODULE Spec2Model ----
(***************************************************************************)
(* A model of the unitypackage-scanner engine:                             *)
(*   - the archive extractor's entry filter (PackageParser.extractTarGz),  *)
(*   - the scan orchestration of the main process (the 'scan-package'      *)
(*     handler, PackageParser.parsePackage, cleanup and cleanupAll),       *)
(*   - the rule stores (PatternLoader, ExtensionDetector) and the          *)
(*     PatternMatcher that scans with them.                                *)
(* Each part has its own specification over its own variables.             *)
(***************************************************************************)
EXTENDS Integers, Sequences, FiniteSets, TLC

VARIABLES
  \* --- archive extractor (SpecExtract)
  lastEntry,      \* the entry path the filter saw last (<<>>: none yet)
  lastKept,       \* what the filter answered for it
  nEntries,       \* entries of the archive seen so far
  extractState,   \* "extracting" | "done"
  \* --- scan orchestration (SpecScan)
  pc,             \* per scan: where its handler stands
  progressCallback, \* PackageParser.progressCallback: 0 (unset) or a sink
  events,         \* per scan: the progress events it reported, in order
  sinks,          \* per scan: the sinks its progress events were delivered to
  dirExists,      \* per scan: its scratch directory exists on disk
  dirCreated,     \* per scan: its scratch directory was created
  removals,       \* per scan: how often a remove deleted its directory
  cause,          \* per scan: why it failed ("" while it has not)
  replies,        \* per scan: the replies the handler returned to the caller
  rootExists,     \* the temp root (PackageParser.tempDir) exists
  blocked,        \* the event loop is stuck inside a callback that never returns
  removeFailed,   \* per scan: its cleanup(extractDir) logged a failed remove
  caPc,           \* the cleanupAll in flight: "idle" | "check" | "remove"
  \* --- rule stores and matcher (SpecPatternRules, SpecExtensionRules)
  currentPatternFile,    \* PatternLoader: <<>> (null) or <<the parsed file>>
  loadedPatterns,        \* PatternLoader: the compiled patterns
  patterns,              \* PatternMatcher: the patterns it scans with
  aliased,               \* patterns and loadedPatterns are the same array
  currentDefinitionFile, \* ExtensionDetector: <<>> or <<the parsed file>>
  extensionRules,        \* ExtensionDetector: [defined, rules]
  enabledExtensions,     \* ExtensionDetector: the enabled extensions
  lastOp,                \* the operation called last and its arguments
  ruleError,             \* the error it threw (<<>>: it returned)
  scanResult,            \* what the last scanFiles did and was given, if it was the last call
  \* --- the analyzer of the unpacked archive (SpecAnalyze)
  analyzeState,          \* "listing" | "done" | "failed"
  guidDirs,              \* the entries of the scratch directory looked at so far
  analyzedFiles,         \* `files`: the ExtractedFile list built so far
  \* --- the renderer's App component (SpecApp)
  appState,              \* "idle" | "scanning" | "completed" | "error"
  appScanResult,         \* the state `scanResult` of App: <<the result shown>>, or <<>> (null)
  error,                 \* <<the message shown>>, or <<>> (null)
  appProgress,           \* the percentage shown
  currentFile,           \* the label shown under the progress bar
  invocations            \* the calls of handleFileSelect made so far, in order

extractVars == <<lastEntry, lastKept, nEntries, extractState>>
scanVars == <<pc, progressCallback, events, sinks, dirExists, dirCreated, removals,
              cause, replies, rootExists, blocked, removeFailed, caPc>>
ruleVars == <<currentPatternFile, loadedPatterns, patterns, aliased,
              currentDefinitionFile, extensionRules, enabledExtensions,
              lastOp, ruleError, scanResult>>
analyzeVars == <<analyzeState, guidDirs, analyzedFiles>>
appVars == <<appState, appScanResult, error, appProgress, currentFile, invocations>>
vars == <<extractVars, scanVars, ruleVars, analyzeVars, appVars>>

\* what the actions of one part leave alone
notExtract == <<scanVars, ruleVars, analyzeVars, appVars>>
notScan == <<extractVars, ruleVars, analyzeVars, appVars>>
notRules == <<extractVars, scanVars, analyzeVars, appVars>>
notAnalyze == <<extractVars, scanVars, ruleVars, appVars>>
notApp == <<extractVars, scanVars, ruleVars, analyzeVars>>

(***************************************************************************)
(* Paths are strings, modelled as sequences of characters.                 *)
(***************************************************************************)
PathChars == {".", "/", "a"}

MaxPathLen == 4

MaxEntries == 2

Paths == UNION {[1..n -> PathChars] : n \in 1..MaxPathLen}

DotDot == <<".", ".">>

RECURSIVE SplitFrom(_, _, _)
SplitFrom(s, i, cur) ==
  IF i > Len(s) THEN <<cur>>
  ELSE IF s[i] = "/" THEN <<cur>> \o SplitFrom(s, i + 1, <<>>)
  ELSE SplitFrom(s, i + 1, Append(cur, s[i]))

\* s.split('/')
Split(s) == SplitFrom(s, 1, <<>>)

RECURSIVE Join(_)
Join(segs) ==
  IF Len(segs) = 0 THEN <<>>
  ELSE IF Len(segs) = 1 THEN segs[1]
  ELSE segs[1] \o <<"/">> \o Join(Tail(segs))

\* posix normalizeString: resolves "." and ".." segments; above the root a
\* ".." is kept only for a relative path.
RECURSIVE NormalizeSegs(_, _, _, _)
NormalizeSegs(segs, i, res, allowAboveRoot) ==
  IF i > Len(segs) THEN res
  ELSE LET seg == segs[i] IN
    IF seg = <<>> \/ seg = <<".">>
    THEN NormalizeSegs(segs, i + 1, res, allowAboveRoot)
    ELSE IF seg = DotDot
    THEN IF Len(res) > 0 /\ res[Len(res)] # DotDot
         THEN NormalizeSegs(segs, i + 1, SubSeq(res, 1, Len(res) - 1), allowAboveRoot)
         ELSE IF allowAboveRoot
         THEN NormalizeSegs(segs, i + 1, Append(res, DotDot), allowAboveRoot)
         ELSE NormalizeSegs(segs, i + 1, res, allowAboveRoot)
    ELSE NormalizeSegs(segs, i + 1, Append(res, seg), allowAboveRoot)

IsAbsolute(p) == Len(p) > 0 /\ p[1] = "/"

\* path.normalize (posix)
Normalize(p) ==
  IF Len(p) = 0 THEN <<".">>
  ELSE LET abs == IsAbsolute(p)
           trailing == p[Len(p)] = "/"
           body == Join(NormalizeSegs(Split(p), 1, <<>>, ~abs))
       IN IF Len(body) = 0
          THEN IF abs THEN <<"/">>
               ELSE IF trailing THEN <<".", "/">> ELSE <<".">>
          ELSE (IF abs THEN <<"/">> ELSE <<>>) \o body
               \o (IF trailing THEN <<"/">> ELSE <<>>)

\* String.prototype.startsWith
StartsWith(s, pre) == Len(s) >= Len(pre) /\ SubSeq(s, 1, Len(pre)) = pre

\* String.prototype.includes
Includes(s, sub) ==
  \E i \in 1..Len(s) : i + Len(sub) - 1 <= Len(s) /\ SubSeq(s, i, i + Len(sub) - 1) = sub

\* the filter handed to tar.extract: TRUE keeps the entry
ExtractFilter(entryPath) ==
  LET normalizedPath == Normalize(entryPath)
  IN ~StartsWith(normalizedPath, <<".", ".", "/">>)
     /\ ~Includes(normalizedPath, <<"/", ".", ".", "/">>)

InitExtract ==
  /\ lastEntry = <<>>
  /\ lastKept = FALSE
  /\ nEntries = 0
  /\ extractState = "extracting"

\* tar.extract hands the next entry of the archive to the filter
FilterEntry(p) ==
  /\ extractState = "extracting"
  /\ UNCHANGED notExtract
  /\ nEntries < MaxEntries
  /\ lastEntry' = p
  /\ lastKept' = ExtractFilter(p)
  /\ nEntries' = nEntries + 1
  /\ UNCHANGED extractState

\* the archive has no more entries: tar.extract resolves
FinishExtract ==
  /\ extractState = "extracting"
  /\ UNCHANGED notExtract
  /\ extractState' = "done"
  /\ UNCHANGED <<lastEntry, lastKept, nEntries>>

NextExtract ==
  \/ \E p \in Paths : FilterEntry(p)
  \/ FinishExtract

(***************************************************************************)
(* The scan orchestration: one PackageParser shared by every invocation of *)
(* the 'scan-package' handler. Each action is one run of the event loop:   *)
(* the code between two awaits.                                            *)
(***************************************************************************)
NumScans == 2

Scans == 1..NumScans

\* what a progress consumer may do when it is called
ConsumerOutcomes == {"returns", "throws", "hangs"}

InitScan ==
  /\ pc = [s \in Scans |-> "idle"]
  /\ progressCallback = 0
  /\ events = [s \in Scans |-> <<>>]
  /\ sinks = [s \in Scans |-> {}]
  /\ dirExists = [s \in Scans |-> FALSE]
  /\ dirCreated = [s \in Scans |-> FALSE]
  /\ removals = [s \in Scans |-> 0]
  /\ cause = [s \in Scans |-> ""]
  /\ replies = [s \in Scans |-> <<>>]
  /\ rootExists = FALSE
  /\ blocked = FALSE
  /\ removeFailed = [s \in Scans |-> FALSE]
  /\ caPc = "idle"

\* reportProgress: the events of a scan after it reported (stage, progress)
\* through the callback field as it stands (cb); no callback, no event.
ReportProgress(evs, cb, stage, progress) ==
  IF cb # 0
  THEN Append(evs, [stage |-> stage, progress |-> progress])
  ELSE evs

\* the sink the callback field holds receives what is reported through it
Delivered(s, cb) ==
  sinks' = [sinks EXCEPT ![s] = IF cb # 0 THEN @ \cup {cb} ELSE @]

\* the handler's catch: the error is returned to the caller as the reply
ReplyError(s, why) ==
  /\ pc' = [pc EXCEPT ![s] = "failed"]
  /\ cause' = [cause EXCEPT ![s] = why]
  /\ replies' = [replies EXCEPT ![s] = Append(@, "error")]

\* mutant: the inner catch rethrows without cleaning up
StartCleanupForgotten(s, why) == ReplyError(s, why)

\* parsePackage's inner catch: cleanup(extractDir) starts, the error waits
StartCleanup(s, why) ==
  /\ pc' = [pc EXCEPT ![s] = "cleanupCheck"]
  /\ cause' = [cause EXCEPT ![s] = why]
  /\ UNCHANGED replies

\* 'scan-package' is invoked (scans are numbered in the order of their
\* invocation): setProgressCallback, then parsePackage up to its first await
\* (fs.pathExists)
StartScan(s, r) ==
  /\ ~blocked
  /\ UNCHANGED notScan
  /\ pc[s] = "idle"
  /\ \A t \in Scans : t < s => pc[t] # "idle"
  /\ progressCallback' = s
  /\ events' = [events EXCEPT ![s] = ReportProgress(@, s, "extracting", 0)]
  /\ Delivered(s, s)
  /\ CASE r = "returns" ->
            /\ pc' = [pc EXCEPT ![s] = "pathExists"]
            /\ UNCHANGED <<cause, replies, blocked>>
       [] r = "throws" -> ReplyError(s, "consumer") /\ UNCHANGED blocked
       [] r = "hangs" ->
            /\ blocked' = TRUE
            /\ UNCHANGED <<pc, cause, replies>>
  /\ UNCHANGED <<dirExists, dirCreated, removals, rootExists, removeFailed,
                 caPc>>

\* fs.pathExists(filePath) resolved
AfterPathExists(s, exists) ==
  /\ ~blocked
  /\ UNCHANGED notScan
  /\ pc[s] = "pathExists"
  /\ IF exists
     THEN /\ pc' = [pc EXCEPT ![s] = "stat"]
          /\ UNCHANGED <<cause, replies>>
     ELSE ReplyError(s, "notfound")
  /\ UNCHANGED <<progressCallback, events, sinks, dirExists, dirCreated, removals,
                 rootExists, blocked, removeFailed, caPc>>

\* fs.stat(filePath) settled; then the second report and createTempDirectory
\* up to fs.ensureDir
AfterStat(s, ok, r) ==
  /\ ~blocked
  /\ UNCHANGED notScan
  /\ pc[s] = "stat"
  /\ ~ok => r = "returns"          \* no report, no consumer
  /\ IF ~ok
     THEN ReplyError(s, "stat") /\ UNCHANGED <<events, sinks, blocked>>
     ELSE /\ events' = [events EXCEPT
                 ![s] = ReportProgress(@, progressCallback, "extracting", 10)]
          /\ Delivered(s, progressCallback)
          /\ CASE r = "returns" ->
                    /\ pc' = [pc EXCEPT ![s] = "ensureDir"]
                    /\ UNCHANGED <<cause, replies, blocked>>
               [] r = "throws" -> ReplyError(s, "consumer") /\ UNCHANGED blocked
               [] r = "hangs" ->
                    /\ blocked' = TRUE
                    /\ UNCHANGED <<pc, cause, replies>>
  /\ UNCHANGED <<progressCallback, dirExists, dirCreated, removals, rootExists,
                 removeFailed, caPc>>

\* fs.ensureDir(tempPath) settled: the scratch directory (and the temp root
\* above it) exists; then tar.extract is started
AfterEnsureDir(s, ok) ==
  /\ ~blocked
  /\ UNCHANGED notScan
  /\ pc[s] = "ensureDir"
  /\ IF ok
     THEN /\ dirExists' = [dirExists EXCEPT ![s] = TRUE]
          /\ dirCreated' = [dirCreated EXCEPT ![s] = TRUE]
          /\ rootExists' = TRUE
          /\ pc' = [pc EXCEPT ![s] = "extract"]
          /\ UNCHANGED <<cause, replies>>
     ELSE /\ ReplyError(s, "mkdir")
          /\ UNCHANGED <<dirExists, dirCreated, rootExists>>
  /\ UNCHANGED <<progressCallback, events, sinks, removals, blocked, removeFailed,
                 caPc>>

\* tar.extract settled (it cannot succeed into a directory that is gone);
\* on success the third report and analyzeExtractedFiles up to fs.readdir
AfterExtract(s, ok, r) ==
  /\ ~blocked
  /\ UNCHANGED notScan
  /\ pc[s] = "extract"
  /\ ok => dirExists[s]
  /\ ~ok => r = "returns"          \* no report, no consumer
  /\ IF ~ok
     THEN StartCleanup(s, "extract") /\ UNCHANGED <<events, sinks, blocked>>
     ELSE /\ events' = [events EXCEPT
                 ![s] = ReportProgress(@, progressCallback, "analyzing", 50)]
          /\ Delivered(s, progressCallback)
          /\ CASE r = "returns" ->
                    /\ pc' = [pc EXCEPT ![s] = "analyze"]
                    /\ UNCHANGED <<cause, replies, blocked>>
               [] r = "throws" -> StartCleanup(s, "consumer") /\ UNCHANGED blocked
               [] r = "hangs" ->
                    /\ blocked' = TRUE
                    /\ UNCHANGED <<pc, cause, replies>>
  /\ UNCHANGED <<progressCallback, dirExists, dirCreated, removals, rootExists,
                 removeFailed, caPc>>

\* analyzeExtractedFiles settled; on success the last two reports, then the
\* handler scans the files, builds the result and returns it
AfterAnalyze(s, ok, r1, r2) ==
  /\ ~blocked
  /\ UNCHANGED notScan
  /\ pc[s] = "analyze"
  /\ ok => dirExists[s]
  /\ ~ok => r1 = "returns"         \* no report, no consumer
  /\ r1 # "returns" => r2 = "returns"   \* no second report, no second call
  /\ IF ~ok
     THEN StartCleanup(s, "analyze") /\ UNCHANGED <<events, sinks, blocked>>
     ELSE /\ Delivered(s, progressCallback)
          /\ events' = [events EXCEPT ![s] =
                 LET e1 == ReportProgress(@, progressCallback, "analyzing", 90)
                 IN IF r1 = "returns"
                    THEN ReportProgress(e1, progressCallback, "completed", 100)
                    ELSE e1]
          /\ CASE r1 = "throws" \/ (r1 = "returns" /\ r2 = "throws") ->
                    StartCleanup(s, "consumer") /\ UNCHANGED blocked
               [] r1 = "hangs" \/ (r1 = "returns" /\ r2 = "hangs") ->
                    /\ blocked' = TRUE
                    /\ UNCHANGED <<pc, cause, replies>>
               [] r1 = "returns" /\ r2 = "returns" ->
                    /\ pc' = [pc EXCEPT ![s] = "done"]
                    /\ replies' = [replies EXCEPT ![s] = Append(@, "success")]
                    /\ UNCHANGED <<cause, blocked>>
  /\ UNCHANGED <<progressCallback, dirExists, dirCreated, removals, rootExists,
                 removeFailed, caPc>>

\* cleanup(extractDir): fs.pathExists(targetDir) resolved
CleanupCheck(s) ==
  /\ ~blocked
  /\ UNCHANGED notScan
  /\ pc[s] = "cleanupCheck"
  /\ IF dirExists[s]
     THEN /\ pc' = [pc EXCEPT ![s] = "cleanupRemove"]
          /\ UNCHANGED <<cause, replies>>
     ELSE ReplyError(s, cause[s])
  /\ UNCHANGED <<progressCallback, events, sinks, dirExists, dirCreated, removals,
                 rootExists, blocked, removeFailed, caPc>>

\* cleanup(extractDir): fs.remove(targetDir) settled; a failure is logged
\* and swallowed. Either way the error then reaches the caller.
CleanupRemove(s, ok) ==
  /\ ~blocked
  /\ UNCHANGED notScan
  /\ pc[s] = "cleanupRemove"
  /\ ~ok => dirExists[s]
  /\ IF ok
     THEN /\ dirExists' = [dirExists EXCEPT ![s] = FALSE]
          /\ removals' = [removals EXCEPT ![s] = IF dirExists[s] THEN @ + 1 ELSE @]
          /\ UNCHANGED removeFailed
     ELSE /\ removeFailed' = [removeFailed EXCEPT ![s] = TRUE]
          /\ UNCHANGED <<dirExists, removals>>
  /\ ReplyError(s, cause[s])
  /\ UNCHANGED <<progressCallback, events, sinks, dirCreated, rootExists, blocked,
                 caPc>>

\* 'window-all-closed' or 'before-quit': cleanupAll() = cleanup() on the temp
\* root, up to its fs.pathExists
StartCleanupAll ==
  /\ ~blocked
  /\ UNCHANGED notScan
  /\ caPc = "idle"
  /\ caPc' = "check"
  /\ UNCHANGED <<pc, progressCallback, events, sinks, dirExists, dirCreated, removals,
                 cause, replies, rootExists, blocked, removeFailed>>

\* cleanup(): fs.pathExists(this.tempDir) resolved
CleanupAllCheck ==
  /\ ~blocked
  /\ UNCHANGED notScan
  /\ caPc = "check"
  /\ caPc' = IF rootExists THEN "remove" ELSE "idle"
  /\ UNCHANGED <<pc, progressCallback, events, sinks, dirExists, dirCreated, removals,
                 cause, replies, rootExists, blocked, removeFailed>>

\* cleanup(): fs.remove(this.tempDir) settled: the root goes with every
\* scratch directory under it, or the failure is logged and swallowed
CleanupAllRemove(ok) ==
  /\ ~blocked
  /\ UNCHANGED notScan
  /\ caPc = "remove"
  /\ ~ok => rootExists
  /\ IF ok
     THEN /\ rootExists' = FALSE
          /\ dirExists' = [s \in Scans |-> FALSE]
          /\ removals' = [s \in Scans |->
                            IF dirExists[s] THEN removals[s] + 1 ELSE removals[s]]
          /\ UNCHANGED removeFailed
     ELSE UNCHANGED <<rootExists, dirExists, removals, removeFailed>>
  /\ caPc' = "idle"
  /\ UNCHANGED <<pc, progressCallback, events, sinks, dirCreated, cause, replies,
                 blocked>>

(***************************************************************************)
(* The application (src/main/index.ts): handler invocations may overlap,   *)
(* and the consumer is the handler's own closure, which posts the event to *)
(* the window and returns.                                                 *)
(***************************************************************************)

\* the steps the event loop takes on its own once scan s is started
ScanStep(s) ==
  \/ \E exists \in BOOLEAN : AfterPathExists(s, exists)
  \/ \E ok \in BOOLEAN : AfterStat(s, ok, "returns")
  \/ \E ok \in BOOLEAN : AfterEnsureDir(s, ok)
  \/ \E ok \in BOOLEAN : AfterExtract(s, ok, "returns")
  \/ \E ok \in BOOLEAN : AfterAnalyze(s, ok, "returns", "returns")
  \/ CleanupCheck(s)
  \/ \E ok \in BOOLEAN : CleanupRemove(s, ok)

CleanupAllStep ==
  \/ CleanupAllCheck
  \/ \E ok \in BOOLEAN : CleanupAllRemove(ok)

NextScan ==
  \/ \E s \in Scans : StartScan(s, "returns")
  \/ \E s \in Scans, exists \in BOOLEAN : AfterPathExists(s, exists)
  \/ \E s \in Scans, ok \in BOOLEAN : AfterStat(s, ok, "returns")
  \/ \E s \in Scans, ok \in BOOLEAN : AfterEnsureDir(s, ok)
  \/ \E s \in Scans, ok \in BOOLEAN : AfterExtract(s, ok, "returns")
  \/ \E s \in Scans, ok \in BOOLEAN : AfterAnalyze(s, ok, "returns", "returns")
  \/ \E s \in Scans : CleanupCheck(s)
  \/ \E s \in Scans, ok \in BOOLEAN : CleanupRemove(s, ok)
  \/ StartCleanupAll
  \/ CleanupAllCheck
  \/ \E ok \in BOOLEAN : CleanupAllRemove(ok)

(***************************************************************************)
(* The PackageParser on its own, driven by a client that awaits each       *)
(* parsePackage before it calls the next, with a progress consumer of the  *)
(* client's choosing: it may return, throw or never return.                *)
(***************************************************************************)
NoScanInFlight == \A s \in Scans : pc[s] \in {"idle", "done", "failed"}

NextParser ==
  \/ \E s \in Scans, r \in ConsumerOutcomes : NoScanInFlight /\ StartScan(s, r)
  \/ \E s \in Scans, exists \in BOOLEAN : AfterPathExists(s, exists)
  \/ \E s \in Scans, ok \in BOOLEAN, r \in ConsumerOutcomes : AfterStat(s, ok, r)
  \/ \E s \in Scans, ok \in BOOLEAN : AfterEnsureDir(s, ok)
  \/ \E s \in Scans, ok \in BOOLEAN, r \in ConsumerOutcomes : AfterExtract(s, ok, r)
  \/ \E s \in Scans, ok \in BOOLEAN, r1, r2 \in ConsumerOutcomes :
        AfterAnalyze(s, ok, r1, r2)
  \/ \E s \in Scans : CleanupCheck(s)
  \/ \E s \in Scans, ok \in BOOLEAN : CleanupRemove(s, ok)
  \/ StartCleanupAll
  \/ CleanupAllCheck
  \/ \E ok \in BOOLEAN : CleanupAllRemove(ok)

(***************************************************************************)
(* The rule stores and the matcher.  A JSON object is a sequence of        *)
(* [key, value] entries in insertion order; a string that the code takes   *)
(* apart (a file path, a file's content, a line) is a sequence of tokens.  *)
(***************************************************************************)

MaxFiles == 2     \* most files in an ExtractedFile list handed to scanFiles
MaxCustom == 2    \* custom patterns the matcher holds at most

\* Members every plain object inherits from Object.prototype, as far as the
\* names of this model go: obj["constructor"] is the function Object.
InheritedKeys == {"constructor"}

Keys(obj) == {obj[i].key : i \in 1..Len(obj)}

\* obj[k]: an own property, an inherited member, or undefined
Member(obj, k) ==
  IF k \in Keys(obj) THEN "own"
  ELSE IF k \in InheritedKeys THEN "inherited" ELSE "none"

OwnValue(obj, k) == obj[CHOOSE i \in 1..Len(obj) : obj[i].key = k].value

Range(s) == {s[i] : i \in 1..Len(s)}

ToLowerCase(t) ==
  CASE t = "DLL" -> "dll" [] t = "BAT" -> "bat" [] t = "CS" -> "cs" [] OTHER -> t

ToUpperCase(t) ==
  CASE t = "dll" -> "DLL" [] t = "bat" -> "BAT"
    [] t = "constructor" -> "CONSTRUCTOR" [] OTHER -> t

\* --- the rule documents the file system may hold (after JSON.parse)

PatternDef(name, regex, flags, severity) ==
  [name |-> name, regex |-> regex, flags |-> flags, severity |-> severity]

Category(severity, fileExtension, hasPatterns, pats) ==
  [severity |-> severity, fileExtension |-> fileExtension,
   hasPatterns |-> hasPatterns, patterns |-> pats]

Entry(k, v) == [key |-> k, value |-> v]

FullCategories ==
  << Entry("network", Category("warning", "", TRUE,
        << PatternDef(<<"UnityWebRequest">>, "net", <<"i">>, ""),
           PatternDef(<<"Unbalanced">>, "(", <<>>, ""),
           PatternDef(<<"Socket">>, "sock", <<"g", "x">>, "critical") >>)),
     Entry("process", Category("critical", "", TRUE,
        << PatternDef(<<"ProcessStart">>, "proc", <<>>, "") >>)),
     Entry("dll", Category("info", ".dll", FALSE, <<>>)) >>

Preset(cats, hasExclude, excl) ==
  [enabledCategories |-> cats, hasExclude |-> hasExclude, excludePatterns |-> excl]

FullPresets ==
  << Entry("strict", Preset(<<"process", "ghost", "network", "constructor", "dll">>,
                            FALSE, <<>>)),
     Entry("relaxed", Preset(<<"dll", "network", "ghost">>, TRUE,
                             << <<"Socket">>, <<"DLL", " File">>, <<"Nothing">> >>)) >>

PatternFile(hasVersion, hasCategories, hasPresets) ==
  [hasVersion |-> hasVersion, hasName |-> TRUE,
   hasCategories |-> hasCategories, categories |-> FullCategories,
   hasPresets |-> hasPresets, presets |-> FullPresets]

\* --- the documents the application ships as defaults.  A rule's regex is
\* the word of a script it matches: "UnityWebRequest.Get" for
\* /UnityWebRequest\s*\.\s*(Get|Post|Put|Delete|Head)/gi, "https://x" for
\* /(https?:\/\/[^\s"']+)/gi, and so on.
DefaultCategories ==
  << Entry("network", Category("warning", "", TRUE,
        << PatternDef(<<"UnityWebRequest">>, "UnityWebRequest.Get", <<"g", "i">>, "warning"),
           PatternDef(<<"WWW">>, "new WWW(", <<"g", "i">>, "warning"),
           PatternDef(<<"HttpClient">>, "HttpClient(", <<"g", "i">>, "warning"),
           PatternDef(<<"URL">>, "https://x", <<"g", "i">>, "info") >>)),
     Entry("process", Category("critical", "", TRUE,
        << PatternDef(<<"Process.Start">>, "Process.Start", <<"g", "i">>, "critical") >>)) >>

DefaultPatternDocument ==
  [hasVersion |-> TRUE, hasName |-> TRUE,
   hasCategories |-> TRUE, categories |-> DefaultCategories,
   hasPresets |-> FALSE, presets |-> <<>>]

\* what readFile and JSON.parse make of each content-rule source
PatternSources ==
  {"missing.json", "broken.json", "patterns.json", "noversion.json",
   "nocategories.json"}

ReadPatternSource(src) ==
  CASE src = "missing.json" -> [read |-> FALSE, json |-> FALSE, doc |-> PatternFile(TRUE, TRUE, TRUE)]
    [] src = "broken.json" -> [read |-> TRUE, json |-> FALSE, doc |-> PatternFile(TRUE, TRUE, TRUE)]
    [] src = "patterns.json" -> [read |-> TRUE, json |-> TRUE, doc |-> PatternFile(TRUE, TRUE, TRUE)]
    [] src = "noversion.json" -> [read |-> TRUE, json |-> TRUE, doc |-> PatternFile(FALSE, TRUE, FALSE)]
    [] src = "nocategories.json" -> [read |-> TRUE, json |-> TRUE, doc |-> PatternFile(TRUE, FALSE, TRUE)]
    [] src = "default-patterns.json" -> [read |-> TRUE, json |-> TRUE, doc |-> DefaultPatternDocument]

ExtensionRule(severity, category, checkContent, fileType) ==
  [severity |-> severity, category |-> category, checkContent |-> checkContent,
   fileType |-> fileType]

FullExtensions ==
  << Entry("dll", ExtensionRule("warning", "dll", FALSE, "Dynamic Link Library")),
     Entry("bat", ExtensionRule("critical", "script", TRUE, "Batch File")) >>

FullExtensionPresets ==
  << Entry("strict", [enabledExtensions |-> <<"dll", "bat">>]),
     Entry("minimal", [enabledExtensions |-> <<"dll">>]),
     Entry("legacy", [enabledExtensions |-> <<"DLL">>]) >>

ExtensionDefinitionFile(hasVersion, hasExtensions, hasPresets) ==
  [hasVersion |-> hasVersion, hasName |-> TRUE, hasCategories |-> TRUE,
   hasExtensions |-> hasExtensions, extensions |-> FullExtensions,
   hasPresets |-> hasPresets, presets |-> FullExtensionPresets]

\* the default extension definitions: dynamic libraries are reported
DefaultExtensions ==
  << Entry("dll", ExtensionRule("warning", "dll", FALSE, "Dynamic Link Library")) >>

DefaultExtensionDocument ==
  [hasVersion |-> TRUE, hasName |-> TRUE, hasCategories |-> TRUE,
   hasExtensions |-> TRUE, extensions |-> DefaultExtensions,
   hasPresets |-> FALSE, presets |-> <<>>]

ExtensionSources ==
  {"missing.json", "broken.json", "extensions.json", "ext-noversion.json",
   "ext-nopresets.json", "ext-noextensions.json"}

ReadExtensionSource(src) ==
  CASE src = "missing.json" -> [read |-> FALSE, json |-> FALSE, doc |-> ExtensionDefinitionFile(TRUE, TRUE, TRUE)]
    [] src = "broken.json" -> [read |-> TRUE, json |-> FALSE, doc |-> ExtensionDefinitionFile(TRUE, TRUE, TRUE)]
    [] src = "extensions.json" -> [read |-> TRUE, json |-> TRUE, doc |-> ExtensionDefinitionFile(TRUE, TRUE, TRUE)]
    [] src = "ext-noversion.json" -> [read |-> TRUE, json |-> TRUE, doc |-> ExtensionDefinitionFile(FALSE, TRUE, TRUE)]
    [] src = "ext-nopresets.json" -> [read |-> TRUE, json |-> TRUE, doc |-> ExtensionDefinitionFile(TRUE, TRUE, FALSE)]
    [] src = "ext-noextensions.json" -> [read |-> TRUE, json |-> TRUE, doc |-> ExtensionDefinitionFile(TRUE, FALSE, TRUE)]
    [] src = "file-extensions.json" -> [read |-> TRUE, json |-> TRUE, doc |-> DefaultExtensionDocument]

\* preset names a caller may pass; "" stands for an omitted presetName
PatternPresetNames == {"", "strict", "relaxed", "nosuch", "constructor"}
ExtensionPresetNames == {"", "strict", "minimal", "legacy", "nosuch", "constructor"}

\* --- errors: an Error is its message, a sequence of parts; a wrapping
\* handler puts its own prefix in front of the message it caught.
PatternLoadFailed(msg) == <<"PatternLoadFailed">> \o msg
ExtensionLoadFailed(msg) == <<"ExtensionLoadFailed">> \o msg
PresetNotFound(presetName) == <<"PresetNotFound", presetName>>
TypeError == <<"TypeError">>
ENOENT == <<"ENOENT">>
SyntaxError == <<"SyntaxError">>
NoError == <<>>

\* --- PatternLoader

ValidFlags == {"g", "i", "m", "s", "u", "y"}

ParseRegexFlags(flags) ==
  LET parsedFlags == SelectSeq(flags, LAMBDA flag : flag \in ValidFlags)
  IN IF "g" \in Range(parsedFlags) THEN parsedFlags ELSE Append(parsedFlags, "g")

\* new RegExp(source, flags) throws a SyntaxError: the source does not parse,
\* or a flag is given twice
InvalidRegexSources == {"("}

RegExpThrows(source, flags) ==
  \/ source \in InvalidRegexSources
  \/ \E i, j \in 1..Len(flags) : i < j /\ flags[i] = flags[j]

\* A compiled regular expression: `source` is the word it matches, `suffix`
\* tells the form \<source>$ that only matches at the end of the line.
RegExp(source, flags, suffix) ==
  [source |-> source, flags |-> flags, suffix |-> suffix]

CompiledPattern(name, category, severity, regex) ==
  [name |-> name, category |-> category, severity |-> severity, regex |-> regex]

\* the patterns loop taking every severity from the category
RECURSIVE CompileWithCategorySeverity(_, _, _, _)
CompileWithCategorySeverity(categoryName, category, i, compiledPatterns) ==
  IF i > Len(category.patterns) THEN compiledPatterns
  ELSE LET pattern == category.patterns[i]
           regexFlags == ParseRegexFlags(pattern.flags)
       IN CompileWithCategorySeverity(categoryName, category, i + 1,
            IF RegExpThrows(pattern.regex, regexFlags)
            THEN compiledPatterns
            ELSE Append(compiledPatterns,
                   CompiledPattern(pattern.name, categoryName, category.severity,
                     RegExp(pattern.regex, regexFlags, FALSE))))

RECURSIVE CompileCategoryPatterns(_, _, _, _)
CompileCategoryPatterns(categoryName, category, i, compiledPatterns) ==
  IF i > Len(category.patterns) THEN compiledPatterns
  ELSE LET pattern == category.patterns[i]
           regexFlags == ParseRegexFlags(pattern.flags)
       IN CompileCategoryPatterns(categoryName, category, i + 1,
            IF RegExpThrows(pattern.regex, regexFlags)
            THEN compiledPatterns   \* caught, warned about, dropped
            ELSE Append(compiledPatterns,
                   CompiledPattern(pattern.name, categoryName,
                     IF pattern.severity # "" THEN pattern.severity
                                              ELSE category.severity,
                     RegExp(pattern.regex, regexFlags, FALSE))))

RECURSIVE CompileEntries(_, _, _)
CompileEntries(categories, i, compiledPatterns) ==
  IF i > Len(categories) THEN compiledPatterns
  ELSE LET categoryName == categories[i].key
           category == categories[i].value
       IN CompileEntries(categories, i + 1,
            IF category.fileExtension # ""
            THEN Append(compiledPatterns,
                   CompiledPattern(<<ToUpperCase(categoryName), " File">>,
                     categoryName, category.severity,
                     RegExp(category.fileExtension, <<"g", "i">>, TRUE)))
            ELSE IF category.hasPatterns
            THEN CompileCategoryPatterns(categoryName, category, 1, compiledPatterns)
            ELSE compiledPatterns)

\* compilePatterns: Object.entries(undefined) throws a TypeError
CompilePatterns(patternFile) ==
  IF ~patternFile.hasCategories
  THEN [threw |-> TRUE, patterns |-> <<>>]
  ELSE [threw |-> FALSE, patterns |-> CompileEntries(patternFile.categories, 1, <<>>)]

\* what a category looks like when it is a function inherited from
\* Object.prototype: no fileExtension, no patterns
InheritedMemberAsCategory == Category("", "", FALSE, <<>>)

RECURSIVE FilterCategories(_, _, _, _)
FilterCategories(categories, enabledCategories, i, filtered) ==
  IF i > Len(enabledCategories) THEN filtered
  ELSE LET categoryName == enabledCategories[i]
           m == Member(categories, categoryName)
       IN FilterCategories(categories, enabledCategories, i + 1,
            IF m = "none" \/ categoryName \in Keys(filtered) THEN filtered
            ELSE Append(filtered, Entry(categoryName,
                   IF m = "own" THEN OwnValue(categories, categoryName)
                                ELSE InheritedMemberAsCategory)))

\* applyPreset without its exclude step
ApplyPresetKeepExcluded(patternFile, preset) ==
  CompilePatterns([patternFile EXCEPT !.categories =
      FilterCategories(patternFile.categories, preset.enabledCategories, 1, <<>>)]).patterns

ApplyPreset(patternFile, preset) ==
  LET filteredPatternFile == [patternFile EXCEPT !.categories =
          FilterCategories(patternFile.categories, preset.enabledCategories, 1, <<>>)]
      compiled == CompilePatterns(filteredPatternFile).patterns
  IN IF preset.hasExclude
     THEN SelectSeq(compiled, LAMBDA pattern :
                      pattern.name \notin Range(preset.excludePatterns))
     ELSE compiled

\* loadPatternsFromFile against the loader's fields (file, loaded): the error
\* it throws (NoError: it returns `loaded`), the fields afterwards, and
\* whether loadedPatterns now is another array than before
LoadPatternsFromFile(src, file, loaded) ==
  LET r == ReadPatternSource(src)
      compiled == CompilePatterns(r.doc)
  IN IF ~r.read
     THEN [error |-> PatternLoadFailed(ENOENT), file |-> file, loaded |-> loaded,
           replaced |-> FALSE]
     ELSE IF ~r.json
     THEN [error |-> PatternLoadFailed(SyntaxError), file |-> file, loaded |-> loaded,
           replaced |-> FALSE]
     ELSE IF compiled.threw
     THEN [error |-> PatternLoadFailed(TypeError), file |-> <<r.doc>>,
           loaded |-> loaded, replaced |-> FALSE]
     ELSE [error |-> NoError, file |-> <<r.doc>>, loaded |-> compiled.patterns,
           replaced |-> TRUE]

LoadPatternsWithPreset(src, presetName, file, loaded) ==
  LET l == LoadPatternsFromFile(src, file, loaded)
      doc == l.file[1]
      m == IF doc.hasPresets THEN Member(doc.presets, presetName) ELSE "none"
  IN IF l.error # NoError THEN l
     ELSE IF m = "none" THEN [l EXCEPT !.error = PresetNotFound(presetName)]
     ELSE IF m = "inherited"
     THEN \* the preset is a function: iterating its enabledCategories throws
          [l EXCEPT !.error = TypeError]
     ELSE [l EXCEPT !.loaded = ApplyPreset(doc, OwnValue(doc.presets, presetName))]

\* --- ExtensionDetector

\* loadExtensionDefinitions against the detector's fields: the error it
\* throws and the fields afterwards.  `rules` is [defined, rules]:
\* extensionRules is undefined after a document without `extensions`.
LoadExtensionDefinitions(src, presetName, file, rules, enabled) ==
  LET r == ReadExtensionSource(src)
      doc == r.doc
      newRules == [defined |-> doc.hasExtensions, rules |-> doc.extensions]
      assigned == [error |-> NoError, file |-> <<doc>>, rules |-> newRules,
                   enabled |-> enabled]
      m == Member(doc.presets, presetName)
  IN IF ~r.read
     THEN [error |-> ExtensionLoadFailed(ENOENT), file |-> file, rules |-> rules,
           enabled |-> enabled]
     ELSE IF ~r.json
     THEN [error |-> ExtensionLoadFailed(SyntaxError), file |-> file, rules |-> rules,
           enabled |-> enabled]
     ELSE IF presetName # ""
     THEN IF ~doc.hasPresets
          THEN [assigned EXCEPT !.error = ExtensionLoadFailed(TypeError)]
          ELSE IF m = "none"
          THEN [assigned EXCEPT !.error = ExtensionLoadFailed(PresetNotFound(presetName))]
          ELSE IF m = "inherited"
          THEN \* applyPreset: new Set(undefined) is the empty set
               [assigned EXCEPT !.enabled = {}]
          ELSE [assigned EXCEPT !.enabled =
                  Range(OwnValue(doc.presets, presetName).enabledExtensions)]
     ELSE IF ~doc.hasExtensions
          THEN \* Object.keys(undefined)
               [assigned EXCEPT !.error = ExtensionLoadFailed(TypeError)]
          ELSE [assigned EXCEPT !.enabled = Keys(doc.extensions)]

\* applyPreset adding the preset's extensions to those already enabled
ExtensionApplyPresetMerging(presetName, file, enabled) ==
  IF file = <<>> \/ ~file[1].hasPresets \/ Member(file[1].presets, presetName) # "own"
  THEN [error |-> PresetNotFound(presetName), enabled |-> enabled]
  ELSE [error |-> NoError,
        enabled |-> enabled \cup
                    Range(OwnValue(file[1].presets, presetName).enabledExtensions)]

\* applyPreset switching every extension of the preset: on if it was off, off
\* if it was on
ExtensionApplyPresetToggling(presetName, file, enabled) ==
  IF file = <<>> \/ ~file[1].hasPresets \/ Member(file[1].presets, presetName) # "own"
  THEN [error |-> PresetNotFound(presetName), enabled |-> enabled]
  ELSE LET listed == Range(OwnValue(file[1].presets, presetName).enabledExtensions)
       IN [error |-> NoError, enabled |-> (enabled \ listed) \cup (listed \ enabled)]

\* ExtensionDetector.applyPreset: the error it throws and enabledExtensions
ExtensionApplyPreset(presetName, file, enabled) ==
  LET doc == file[1]
      m == Member(doc.presets, presetName)
  IN IF file = <<>>
     THEN [error |-> PresetNotFound(presetName), enabled |-> enabled]
     ELSE IF ~doc.hasPresets
     THEN [error |-> TypeError, enabled |-> enabled]
     ELSE IF m = "none"
     THEN [error |-> PresetNotFound(presetName), enabled |-> enabled]
     ELSE IF m = "inherited"
     THEN [error |-> NoError, enabled |-> {}]
     ELSE [error |-> NoError,
           enabled |-> Range(OwnValue(doc.presets, presetName).enabledExtensions)]

LastIndexOf(s, t) ==
  LET I == {i \in 1..Len(s) : s[i] = t}
  IN IF I = {} THEN 0 ELSE CHOOSE i \in I : \A j \in I : j <= i

\* path.extname: from the last "." of the last path segment, unless that
\* segment has none or starts with it
Extname(p) ==
  LET slash == LastIndexOf(p, "/")
      dot == LastIndexOf(p, ".")
  IN IF dot = 0 \/ dot <= slash + 1 THEN <<>> ELSE SubSeq(p, dot, Len(p))

\* getFileExtension without the toLowerCase step
GetFileExtensionCaseSensitive(filePath) ==
  LET rest == SubSeq(Extname(filePath), 2, Len(Extname(filePath)))
  IN IF rest = <<>> THEN "" ELSE rest[1]

\* getFileExtension; "" stands for null.  A name has no "." inside a token,
\* so at most one token follows the last "."
GetFileExtension(filePath) ==
  LET ext == Extname(filePath)
      lowered == [i \in 1..Len(ext) |-> ToLowerCase(ext[i])]
      rest == SubSeq(lowered, 2, Len(lowered))
  IN IF rest = <<>> THEN "" ELSE rest[1]

ExtractedFile(path, type, hasContent, content) ==
  [path |-> path, type |-> type, hasContent |-> hasContent, content |-> content]

\* file.content is truthy: present and not the empty string
HasTruthyContent(file) == file.hasContent /\ file.content # <<>>

AnalyzeFileContent(content, extension) == <<ToUpperCase(extension), " script">>

Thrown == [threw |-> TRUE, findings |-> <<>>]

\* Number.prototype.toString: the decimal digits of a counter
Digits == <<"0", "1", "2", "3", "4", "5", "6", "7", "8", "9">>

RECURSIVE NumberToString(_)
NumberToString(n) ==
  IF n < 10 THEN <<Digits[n + 1]>>
  ELSE NumberToString(n \div 10) \o <<Digits[(n % 10) + 1]>>

RECURSIVE ExtensionScanFiles(_, _, _, _, _)
ExtensionScanFiles(extractedFiles, i, rules, enabled, findings) ==
  IF i > Len(extractedFiles) THEN [threw |-> FALSE, findings |-> findings]
  ELSE LET file == extractedFiles[i]
           extension == GetFileExtension(file.path)
           m == Member(rules.rules, extension)
           rule == OwnValue(rules.rules, extension)
           additionalContext ==
             IF rule.checkContent /\ HasTruthyContent(file)
             THEN AnalyzeFileContent(file.content, extension) ELSE <<>>
           finding ==
             [id |-> NumberToString(Len(findings) + 1), severity |-> rule.severity,
              category |-> rule.category,
              pattern |-> <<ToUpperCase(extension), " File">>,
              filePath |-> file.path, lineNumber |-> 0,
              context |-> IF additionalContext # <<>> THEN additionalContext
                          ELSE <<rule.fileType, ": ">> \o file.path]
       IN IF extension = "" \/ extension \notin enabled
          THEN ExtensionScanFiles(extractedFiles, i + 1, rules, enabled, findings)
          ELSE IF ~rules.defined
          THEN Thrown     \* undefined[extension]
          ELSE IF m = "none"
          THEN ExtensionScanFiles(extractedFiles, i + 1, rules, enabled, findings)
          ELSE IF m = "inherited"
          THEN Thrown     \* the rule is a function: rule.metadata is undefined
          ELSE ExtensionScanFiles(extractedFiles, i + 1, rules, enabled,
                                  Append(findings, finding))

\* --- PatternMatcher.scanFiles

RECURSIVE SplitLines(_, _, _)
SplitLines(content, i, current) ==
  IF i > Len(content) THEN <<current>>
  ELSE IF content[i] = "\n" THEN <<current>> \o SplitLines(content, i + 1, <<>>)
  ELSE SplitLines(content, i + 1, Append(current, content[i]))

Whitespace == {" ", "\t", "\r", "\n"}

RECURSIVE TrimStart(_)
TrimStart(line) ==
  IF line # <<>> /\ Head(line) \in Whitespace THEN TrimStart(Tail(line)) ELSE line

RECURSIVE TrimEnd(_)
TrimEnd(line) ==
  IF line # <<>> /\ line[Len(line)] \in Whitespace
  THEN TrimEnd(SubSeq(line, 1, Len(line) - 1)) ELSE line

\* the line as it stands
Untrimmed(line) == line

Trim(line) == TrimEnd(TrimStart(line))

IsCommentLine(line) ==
  LET trimmed == Trim(line)
  IN trimmed # <<>> /\ Head(trimmed) \in {"//", "/*", "*"}

\* the number of matches String.matchAll yields for a global regex
MatchCount(regex, line) ==
  LET Fold(t) == IF "i" \in Range(regex.flags) THEN ToLowerCase(t) ELSE t
  IN IF regex.suffix
     THEN IF line # <<>> /\ Fold(line[Len(line)]) = Fold(regex.source) THEN 1 ELSE 0
     ELSE Cardinality({k \in 1..Len(line) : Fold(line[k]) = Fold(regex.source)})

\* the patterns loop reporting a rule once per line, however often it matches
RECURSIVE ScanLineOncePerRule(_, _, _, _, _, _)
ScanLineOncePerRule(pats, k, file, lineNumber, line, findings) ==
  IF k > Len(pats) THEN [threw |-> FALSE, findings |-> findings]
  ELSE LET pattern == pats[k]
           found == IF MatchCount(pattern.regex, line) = 0 THEN <<>>
                    ELSE << [id |-> NumberToString(Len(findings) + 1),
                             severity |-> pattern.severity,
                             category |-> pattern.category, pattern |-> pattern.name,
                             filePath |-> file.path, lineNumber |-> lineNumber,
                             context |-> Trim(line)] >>
       IN IF "g" \notin Range(pattern.regex.flags)
          THEN Thrown
          ELSE ScanLineOncePerRule(pats, k + 1, file, lineNumber, line,
                                   findings \o found)

RECURSIVE ScanLine(_, _, _, _, _, _)
ScanLine(pats, k, file, lineNumber, line, findings) ==
  IF k > Len(pats) THEN [threw |-> FALSE, findings |-> findings]
  ELSE LET pattern == pats[k]
           n == MatchCount(pattern.regex, line)
           found == [j \in 1..n |->
                       [id |-> NumberToString(Len(findings) + j),
                        severity |-> pattern.severity,
                        category |-> pattern.category, pattern |-> pattern.name,
                        filePath |-> file.path, lineNumber |-> lineNumber,
                        context |-> Trim(line)]]
       IN IF "g" \notin Range(pattern.regex.flags)
          THEN Thrown     \* matchAll: TypeError for a non-global RegExp
          ELSE ScanLine(pats, k + 1, file, lineNumber, line, findings \o found)

RECURSIVE ScanLines(_, _, _, _, _)
ScanLines(pats, file, lines, lineIndex, findings) ==
  IF lineIndex > Len(lines) THEN [threw |-> FALSE, findings |-> findings]
  ELSE LET line == lines[lineIndex]
           r == ScanLine(pats, 1, file, lineIndex, line, findings)
       IN IF IsCommentLine(line)
          THEN ScanLines(pats, file, lines, lineIndex + 1, findings)
          ELSE IF r.threw THEN Thrown
          ELSE ScanLines(pats, file, lines, lineIndex + 1, r.findings)

RECURSIVE ScanScriptFiles(_, _, _, _)
ScanScriptFiles(pats, extractedFiles, i, findings) ==
  IF i > Len(extractedFiles) THEN [threw |-> FALSE, findings |-> findings]
  ELSE LET file == extractedFiles[i]
           r == ScanLines(pats, file, SplitLines(file.content, 1, <<>>), 1, findings)
       IN IF ~(file.type = "script" /\ HasTruthyContent(file))
          THEN ScanScriptFiles(pats, extractedFiles, i + 1, findings)
          ELSE IF r.threw THEN Thrown
          ELSE ScanScriptFiles(pats, extractedFiles, i + 1, r.findings)

\* scanFiles with the content findings numbered on their own, from 1
MatcherScanFilesTwoCounters(extractedFiles, pats, rules, enabled) ==
  LET e == ExtensionScanFiles(extractedFiles, 1, rules, enabled, <<>>)
      c == ScanScriptFiles(pats, extractedFiles, 1, <<>>)
  IN IF e.threw \/ c.threw THEN Thrown
     ELSE [threw |-> FALSE, findings |-> e.findings \o c.findings]

\* PatternMatcher.scanFiles: the extension findings, renumbered from 1, then
\* the content findings numbered on
MatcherScanFiles(extractedFiles, pats, rules, enabled) ==
  LET e == ExtensionScanFiles(extractedFiles, 1, rules, enabled, <<>>)
  IN IF e.threw THEN Thrown
     ELSE ScanScriptFiles(pats, extractedFiles, 1, e.findings)

\* --- the operations of the PatternMatcher and its ExtensionDetector

RECURSIVE SeqsUpTo(_, _)
SeqsUpTo(S, n) ==
  IF n = 0 THEN {<<>>}
  ELSE LET shorter == SeqsUpTo(S, n - 1)
       IN shorter \cup {Append(s, x) : s \in shorter, x \in S}

\* the files of an unpacked package, in the order the analyzer lists them
PackageFiles ==
  << ExtractedFile(<<"Assets", "/", "Net", ".", "cs">>, "script", TRUE,
       <<"net", " ", "proc", "\n", " ", "//", "proc", "\n", " ", "sock", " ", "sock", " ">>),
     ExtractedFile(<<"Assets", "/", "Copy", ".", "cs">>, "script", TRUE,
       <<"net", " ", "proc", "\n", " ", "//", "proc", "\n", " ", "sock", " ", "sock", " ">>),
     ExtractedFile(<<"Plugins", "/", "lib", ".", "DLL">>, "dll", FALSE, <<>>),
     ExtractedFile(<<"Plugins", "/", "lib", ".", "dll">>, "dll", FALSE, <<>>),
     ExtractedFile(<<"run", ".", "bat">>, "other", TRUE, <<"del">>),
     ExtractedFile(<<"x", ".", "constructor">>, "other", FALSE, <<>>) >>

RECURSIVE SubList(_, _, _)
SubList(s, picked, i) ==
  IF i > Len(s) THEN <<>>
  ELSE (IF i \in picked THEN <<s[i]>> ELSE <<>>) \o SubList(s, picked, i + 1)

\* the ExtractedFile lists scanFiles is called with: up to MaxFiles files
\* that follow one another in the package
FileLists ==
  {SubList(PackageFiles, w[1]..w[2], 1) :
     w \in {v \in (1..Len(PackageFiles)) \X (0..Len(PackageFiles)) :
              v[2] - v[1] < MaxFiles}}

CustomNames == {<<"Custom">>, <<"Sticky">>}

\* CompiledPattern values a caller may hand to addCustomPatterns: one with a
\* global regex, one whose regex lacks the g flag
CustomPatterns ==
  { CompiledPattern(<<"Custom">>, "custom", "info", RegExp("proc", <<"g">>, FALSE)),
    CompiledPattern(<<"Sticky">>, "custom", "info", RegExp("proc", <<"y">>, FALSE)) }

NumCustom(pats) == Cardinality({i \in 1..Len(pats) : pats[i].name \in CustomNames})

ToggleNames == {"DLL", "constructor"}

DefaultPatternFiles == {"missing.json", "patterns.json"}
DefaultExtensionFiles == {"missing.json", "extensions.json"}

\* a summary that leaves the info findings out
SummaryWithoutInfo(findings) ==
  [critical |-> Cardinality({i \in 1..Len(findings) : findings[i].severity = "critical"}),
   warning |-> Cardinality({i \in 1..Len(findings) : findings[i].severity = "warning"}),
   info |-> 0,
   total |-> Len(findings)]

\* the summary the 'scan-package' handler computes from the findings
Summary(findings) ==
  [critical |-> Cardinality({i \in 1..Len(findings) : findings[i].severity = "critical"}),
   warning |-> Cardinality({i \in 1..Len(findings) : findings[i].severity = "warning"}),
   info |-> Cardinality({i \in 1..Len(findings) : findings[i].severity = "info"}),
   total |-> Len(findings)]

NoScan == [outcome |-> "none", findings |-> <<>>, files |-> <<>>,
           summary |-> Summary(<<>>)]

Op(op, src, preset) == [op |-> op, src |-> src, preset |-> preset]

InitRules ==
  /\ currentPatternFile = <<>>
  /\ loadedPatterns = <<>>
  /\ patterns = <<>>
  /\ aliased = FALSE
  /\ currentDefinitionFile = <<>>
  /\ extensionRules = [defined |-> TRUE, rules |-> <<>>]
  /\ enabledExtensions = {}
  /\ lastOp = Op("new", "", "")
  /\ ruleError = NoError
  /\ scanResult = NoScan

\* A source that cannot be read or parsed fails the load before the preset
\* name is looked at: such loads are explored without a preset name only.
UnparsedSource(r) == ~r.read \/ ~r.json

\* PatternMatcher.loadPatterns
LoadPatterns(src, presetName) ==
  /\ UnparsedSource(ReadPatternSource(src)) => presetName = ""
  /\ LET l == IF presetName # ""
           THEN LoadPatternsWithPreset(src, presetName, currentPatternFile, loadedPatterns)
           ELSE LoadPatternsFromFile(src, currentPatternFile, loadedPatterns)
     IN /\ currentPatternFile' = l.file
        /\ loadedPatterns' = l.loaded
        /\ patterns' = IF l.error = NoError THEN l.loaded ELSE patterns
        /\ aliased' = IF l.error = NoError THEN TRUE ELSE aliased /\ ~l.replaced
        /\ lastOp' = Op("loadPatterns", src, presetName)
        /\ ruleError' = l.error
        /\ scanResult' = NoScan
        /\ UNCHANGED <<currentDefinitionFile, extensionRules, enabledExtensions>>
        /\ UNCHANGED notRules

\* PatternMatcher.loadExtensionDefinitions
LoadExtensions(src, presetName) ==
  /\ UnparsedSource(ReadExtensionSource(src)) => presetName = ""
  /\ LET e == LoadExtensionDefinitions(src, presetName, currentDefinitionFile,
                                       extensionRules, enabledExtensions)
     IN /\ currentDefinitionFile' = e.file
        /\ extensionRules' = e.rules
        /\ enabledExtensions' = e.enabled
        /\ lastOp' = Op("loadExtensionDefinitions", src, presetName)
        /\ ruleError' = e.error
        /\ scanResult' = NoScan
        /\ UNCHANGED <<currentPatternFile, loadedPatterns, patterns, aliased>>
        /\ UNCHANGED notRules

\* PatternMatcher.initialize: the default pattern file, then the default
\* extension definitions; srcP and srcE are what the two default paths hold
\* (each packaged file is there or is not)
Initialize(srcP, srcE) ==
  LET l == LoadPatternsFromFile(srcP, currentPatternFile, loadedPatterns)
      e == LoadExtensionDefinitions(srcE, "", currentDefinitionFile,
                                    extensionRules, enabledExtensions)
  IN /\ currentPatternFile' = l.file
     /\ loadedPatterns' = l.loaded
     /\ lastOp' = Op("initialize", "", "")
     /\ scanResult' = NoScan
     /\ IF l.error # NoError
        THEN /\ ruleError' = l.error
             /\ UNCHANGED <<patterns, aliased, currentDefinitionFile,
                            extensionRules, enabledExtensions>>
        ELSE /\ patterns' = l.loaded
             /\ aliased' = TRUE
             /\ currentDefinitionFile' = e.file
             /\ extensionRules' = e.rules
             /\ enabledExtensions' = e.enabled
             /\ ruleError' = e.error
     /\ UNCHANGED notRules

\* ExtensionDetector.applyPreset, reached through getExtensionDetector()
ApplyExtensionPreset(presetName) ==
  LET a == ExtensionApplyPreset(presetName, currentDefinitionFile, enabledExtensions)
  IN /\ enabledExtensions' = a.enabled
     /\ lastOp' = Op("applyPreset", "", presetName)
     /\ ruleError' = a.error
     /\ scanResult' = NoScan
     /\ UNCHANGED <<currentPatternFile, loadedPatterns, patterns, aliased,
                    currentDefinitionFile, extensionRules>>
     /\ UNCHANGED notRules

\* ExtensionDetector.setExtensionEnabled
SetExtensionEnabled(extension, enabled) ==
  /\ enabledExtensions' = IF enabled
                          THEN enabledExtensions \cup {ToLowerCase(extension)}
                          ELSE enabledExtensions \ {ToLowerCase(extension)}
  /\ lastOp' = Op("setExtensionEnabled", "", "")
  /\ ruleError' = NoError
  /\ scanResult' = NoScan
  /\ UNCHANGED <<currentPatternFile, loadedPatterns, patterns, aliased,
                 currentDefinitionFile, extensionRules>>
  /\ UNCHANGED notRules

\* PatternMatcher.addCustomPatterns: pushes onto the array `patterns` names,
\* which is the loader's loadedPatterns array after a load that returned
AddCustomPatterns(customPatterns) ==
  /\ NumCustom(patterns) + Len(customPatterns) <= MaxCustom
  /\ patterns' = patterns \o customPatterns
  /\ loadedPatterns' = IF aliased THEN patterns' ELSE loadedPatterns
  /\ lastOp' = Op("addCustomPatterns", "", "")
  /\ ruleError' = NoError
  /\ scanResult' = NoScan
  /\ UNCHANGED <<currentPatternFile, aliased, currentDefinitionFile,
                 extensionRules, enabledExtensions>>
  /\ UNCHANGED notRules

\* PatternMatcher.scanFiles, and the summary its caller in the main process
\* takes of the findings it returns
ScanFiles(extractedFiles) ==
  LET r == MatcherScanFiles(extractedFiles, patterns, extensionRules, enabledExtensions)
  IN /\ scanResult' = [outcome |-> IF r.threw THEN "threw" ELSE "returned",
                       findings |-> r.findings, files |-> extractedFiles,
                       summary |-> Summary(r.findings)]
     /\ lastOp' = Op("scanFiles", "", "")
     /\ ruleError' = IF r.threw THEN TypeError ELSE NoError
     /\ UNCHANGED <<currentPatternFile, loadedPatterns, patterns, aliased,
                    currentDefinitionFile, extensionRules, enabledExtensions>>
     /\ UNCHANGED notRules

\* The two stores share no field, and an operation on one leaves the other
\* alone: each store is explored with the matcher's scan and initialize.
NextPatternRules ==
  \/ \E src \in PatternSources, p \in PatternPresetNames : LoadPatterns(src, p)
  \/ \E srcP \in DefaultPatternFiles, srcE \in DefaultExtensionFiles : Initialize(srcP, srcE)
  \/ \E cs \in SeqsUpTo(CustomPatterns, MaxCustom) : AddCustomPatterns(cs)
  \/ \E fs \in FileLists : ScanFiles(fs)

NextExtensionRules ==
  \/ \E src \in ExtensionSources, p \in ExtensionPresetNames : LoadExtensions(src, p)
  \/ \E srcP \in DefaultPatternFiles, srcE \in DefaultExtensionFiles : Initialize(srcP, srcE)
  \/ \E p \in ExtensionPresetNames \ {""} : ApplyExtensionPreset(p)
  \/ \E x \in ToggleNames, on \in BOOLEAN : SetExtensionEnabled(x, on)
  \/ \E fs \in FileLists : ScanFiles(fs)

\* --- the application's own use of the matcher: initialize() with the
\* shipped documents (each is there or is not), then scans of packages

\* the files of a package: a script with a request line, a dynamic library,
\* a script with the request commented out, a script too large to have
\* content, a script that starts a process, a texture
ScenarioFiles ==
  { ExtractedFile(<<"Assets", "/", "Scripts", "/", "Net", ".", "cs">>, "script", TRUE,
      <<"using", " ", "UnityEngine", ";", "\n",
        " ", "UnityWebRequest.Get", "(", "\"", "https://x", "\"", ")", ";">>),
    ExtractedFile(<<"Assets", "/", "Plugins", "/", "lib", ".", "dll">>, "dll", FALSE, <<>>),
    ExtractedFile(<<"Assets", "/", "Scripts", "/", "Old", ".", "cs">>, "script", TRUE,
      <<"//", " ", "UnityWebRequest.Get", "(", "\"", "https://x", "\"", ")", ";">>),
    ExtractedFile(<<"Assets", "/", "Scripts", "/", "Big", ".", "cs">>, "script", FALSE, <<>>),
    ExtractedFile(<<"Assets", "/", "Scripts", "/", "Run", ".", "cs">>, "script", TRUE,
      <<"Process.Start", "(", ")", ";">>),
    ExtractedFile(<<"Assets", "/", "image", ".", "png">>, "texture", FALSE, <<>>) }

\* the packages scanned: up to MaxFiles different files, in any order
ScenarioLists ==
  {fs \in SeqsUpTo(ScenarioFiles, MaxFiles) :
     \A i, j \in 1..Len(fs) : i # j => fs[i] # fs[j]}

ShippedPatternFiles == {"missing.json", "default-patterns.json"}
ShippedExtensionFiles == {"missing.json", "file-extensions.json"}

NextDefaultScan ==
  \/ \E srcP \in ShippedPatternFiles, srcE \in ShippedExtensionFiles :
       Initialize(srcP, srcE)
  \/ \E fs \in ScenarioLists : ScanFiles(fs)

\* The loads and the preset applications of both stores, without scans.
NextPresetRules ==
  \/ \E src \in PatternSources, p \in PatternPresetNames : LoadPatterns(src, p)
  \/ \E src \in ExtensionSources, p \in ExtensionPresetNames : LoadExtensions(src, p)
  \/ \E p \in ExtensionPresetNames \ {""} : ApplyExtensionPreset(p)
  \/ \E x \in ToggleNames, on \in BOOLEAN : SetExtensionEnabled(x, on)

(***************************************************************************)
(* PackageParser.analyzeExtractedFiles: one step per entry of the scratch  *)
(* directory, in listing order.                                            *)
(***************************************************************************)

MaxDirs == 2            \* entries of the scratch directory
GuidLength == 32        \* /^[a-fA-F0-9]{32}$/
ScriptMaxSize == 1048576  \* 1024 * 1024

HexChars ==
  {"0", "1", "2", "3", "4", "5", "6", "7", "8", "9",
   "a", "b", "c", "d", "e", "f", "A", "B", "C", "D", "E", "F"}

RECURSIVE Repeat(_, _)
Repeat(c, n) == IF n = 0 THEN <<>> ELSE <<c>> \o Repeat(c, n - 1)

\* Entries of one directory have different names: the k-th is made of the
\* k-th of these characters.
NameChars == <<"a", "B", "0", "f", "7", "C">>

NameKinds == {"guid", "short", "nonhex"}

EntryName(k, kind) ==
  LET c == NameChars[((k - 1) % Len(NameChars)) + 1]
  IN CASE kind = "guid" -> Repeat(c, GuidLength)
       [] kind = "short" -> Repeat(c, GuidLength - 1)
       [] kind = "nonhex" -> Repeat(c, GuidLength - 1) \o <<"g">>

\* /^[a-fA-F0-9]{32}$/.test(guidDir)
IsGuid(guidDir) ==
  Len(guidDir) = GuidLength /\ \A i \in 1..Len(guidDir) : guidDir[i] \in HexChars

\* what a GUID directory holds as `pathname`: nothing, something that cannot
\* be read, or a text
Pathnames == {"absent", "unreadable", "blank", "script", "library"}

PathnameContent(p) ==
  CASE p = "blank" -> <<" ", "\n">>
    [] p = "script" -> <<" ", "Assets", "/", "a", ".", "CS", "\n">>
    [] p = "library" -> <<"Plugins", "/", "lib", ".", "dll">>
    [] OTHER -> <<>>

\* sizes fs.stat may report for `asset`
AssetSizes == {0, ScriptMaxSize - 1, ScriptMaxSize}

\* the bytes of `asset`, and the text fs.readFile(..., 'utf-8') makes of them:
\* a byte sequence that is not UTF-8 becomes U+FFFD
AssetPayload(size) == IF size = 0 THEN <<>> ELSE <<"using", "0xFF">>

DecodeUtf8(bytes) ==
  [i \in 1..Len(bytes) |-> IF bytes[i] = "0xFF" THEN "U+FFFD" ELSE bytes[i]]

\* originalPath: undefined, or the trimmed text of `pathname`
OriginalPath(pathname) ==
  IF pathname \in {"absent", "unreadable"}
  THEN [defined |-> FALSE, text |-> <<>>]
  ELSE [defined |-> TRUE, text |-> Trim(PathnameContent(pathname))]

\* a string is truthy unless it is undefined or empty
IsTruthyPath(originalPath) == originalPath.defined /\ originalPath.text # <<>>

AssetExtension(originalPath) ==
  IF IsTruthyPath(originalPath)
  THEN LET ext == Extname(originalPath.text)
       IN [i \in 1..Len(ext) |-> ToLowerCase(ext[i])]
  ELSE <<>>

AssetType(ext) ==
  IF ext = <<".", "cs">> THEN "script"
  ELSE IF ext = <<".", "dll">> THEN "dll"
  ELSE IF Len(ext) = 2 /\ ext[1] = "." /\
          ext[2] \in {"prefab", "asset", "mat", "unity", "controller", "anim"}
  THEN "asset"
  ELSE IF Len(ext) = 2 /\ ext[1] = "." /\
          ext[2] \in {"png", "jpg", "jpeg", "tif", "tiff", "bmp"}
  THEN "texture"
  ELSE IF Len(ext) = 2 /\ ext[1] = "." /\
          ext[2] \in {"fbx", "obj", "dae", "3ds", "blend"}
  THEN "model"
  ELSE IF Len(ext) = 2 /\ ext[1] = "." /\ ext[2] \in {"wav", "mp3", "ogg", "aiff"}
  THEN "audio"
  ELSE "other"

\* the path of the reported file with every falsy originalPath kept as it is
FilePathWithoutPlaceholder(originalPath, guidDir) == originalPath.text

\* originalPath || `[GUID:${guidDir}]`
FilePath(originalPath, guidDir) ==
  IF IsTruthyPath(originalPath) THEN originalPath.text
  ELSE <<"[GUID:">> \o guidDir \o <<"]">>

\* the size test with the ceiling itself let through
ReadsContentUpToCeiling(size) == size <= ScriptMaxSize

\* assetStats.size < 1024 * 1024
ReadsContent(size) == size < ScriptMaxSize

\* What one iteration of the loop does with the entry: the files it pushes
\* (none or one) and whether it read the payload of `asset`.
AnalyzeEntry(guidDir, isDirectory, hasAsset, pathname, size, readable) ==
  LET originalPath == OriginalPath(pathname)
      type == AssetType(AssetExtension(originalPath))
      reads == type = "script" /\ ReadsContent(size)
      hasContent == reads /\ readable
      file == [path |-> FilePath(originalPath, guidDir), type |-> type,
               size |-> size, guid |-> guidDir, hasContent |-> hasContent,
               content |-> IF hasContent THEN DecodeUtf8(AssetPayload(size))
                                         ELSE <<>>]
  IN IF ~isDirectory \/ ~IsGuid(guidDir) \/ ~hasAsset
     THEN [pushed |-> <<>>, assetRead |-> FALSE]
     ELSE [pushed |-> <<file>>, assetRead |-> reads]

InitAnalyze ==
  /\ analyzeState = "listing"
  /\ guidDirs = <<>>
  /\ analyzedFiles = <<>>

\* One iteration.  Inputs the iteration never looks at are fixed: an entry
\* that is skipped has no asset, a directory without asset has no pathname,
\* and only a payload that is read can fail to be read.
AnalyzeDir(kind, isDirectory, hasAsset, pathname, size, readable) ==
  LET guidDir == EntryName(Len(guidDirs) + 1, kind)
      r == AnalyzeEntry(guidDir, isDirectory, hasAsset, pathname, size, readable)
  IN /\ analyzeState = "listing"
     /\ Len(guidDirs) < MaxDirs
     /\ (~isDirectory \/ ~IsGuid(guidDir)) => ~hasAsset
     /\ ~hasAsset => (pathname = "absent" /\ size = 0)
     /\ ~r.assetRead => readable
     /\ guidDirs' = Append(guidDirs,
          [name |-> guidDir, isDirectory |-> isDirectory, hasAsset |-> hasAsset,
           pathname |-> pathname, size |-> size, readable |-> readable,
           assetRead |-> r.assetRead, statFailed |-> "none"])
     /\ analyzedFiles' = analyzedFiles \o r.pushed
     /\ UNCHANGED analyzeState
     /\ UNCHANGED notAnalyze

\* the listing is exhausted: analyzeExtractedFiles returns the files
FinishAnalyze ==
  /\ analyzeState = "listing"
  /\ analyzeState' = "done"
  /\ UNCHANGED <<guidDirs, analyzedFiles>>
  /\ UNCHANGED notAnalyze

\* readdir rejects: the catch turns it into the analysis error and no file
\* list is returned
ReaddirFails ==
  /\ analyzeState = "listing"
  /\ guidDirs = <<>>
  /\ analyzeState' = "failed"
  /\ analyzedFiles' = <<>>
  /\ UNCHANGED guidDirs
  /\ UNCHANGED notAnalyze

\* the two stat calls of an iteration, neither inside a try of its own
StatCalls == {"dir", "asset"}

\* An iteration in which a stat rejects: fs.stat(guidPath), asked of every
\* entry, or fs.stat(assetPath), asked of a GUID directory whose asset
\* exists.  The rejection leaves the loop for the catch of the function: the
\* files collected so far are dropped and the analysis error is thrown.
StatFails(kind, which) ==
  LET guidDir == EntryName(Len(guidDirs) + 1, kind)
  IN /\ analyzeState = "listing"
     /\ Len(guidDirs) < MaxDirs
     /\ which = "asset" => IsGuid(guidDir)
     /\ guidDirs' = Append(guidDirs,
          [name |-> guidDir, isDirectory |-> which = "asset",
           hasAsset |-> which = "asset", pathname |-> "absent", size |-> 0,
           readable |-> TRUE, assetRead |-> FALSE, statFailed |-> which])
     /\ analyzeState' = "failed"
     /\ analyzedFiles' = <<>>
     /\ UNCHANGED notAnalyze

NextAnalyze ==
  \/ \E kind \in NameKinds, isDirectory, hasAsset, readable \in BOOLEAN,
        pathname \in Pathnames, size \in AssetSizes :
       AnalyzeDir(kind, isDirectory, hasAsset, pathname, size, readable)
  \/ FinishAnalyze
  \/ ReaddirFails
  \/ \E kind \in NameKinds, which \in StatCalls : StatFails(kind, which)

\* ---------------------------------------------------------------------------
\* The renderer: the App component, its scan handler and its reset handler
\* ---------------------------------------------------------------------------

\* how many files the user selects in one run of the model
MaxSelections == 3

\* the files the user can select
PackagePaths == {"a.unitypackage", "b.unitypackage"}

\* the reports the parser sends on the channel 'scan-progress'
ProgressReports ==
  { [progress |-> 0,   message |-> "checking the package file"],
    [progress |-> 10,  message |-> "unpacking the package"],
    [progress |-> 50,  message |-> "analysing the file structure"],
    [progress |-> 90,  message |-> "summarising the package"],
    [progress |-> 100, message |-> "package analysed"] }

\* how the promise of scanPackage settles: a reply with success, a reply
\* without it, or a rejection of the invoke itself
ScanOutcomes == {"success", "failure", "rejected"}

\* the calls of handleFileSelect still awaiting scanPackage; each of them
\* holds a subscription to 'scan-progress'
Awaiting == {i \in 1..Len(invocations) : invocations[i].status = "awaiting"}

InitApp ==
  /\ appState = "idle"
  /\ appScanResult = <<>>
  /\ error = <<>>
  /\ appProgress = 0
  /\ currentFile = ""
  /\ invocations = <<>>

\* handleFileSelect up to its await: the uploader is rendered in state idle only
HandleFileSelect(filePath) ==
  /\ appState = "idle"
  /\ Len(invocations) < MaxSelections
  /\ appState' = "scanning"
  /\ error' = <<>>
  /\ appProgress' = 0
  /\ currentFile' = filePath
  /\ invocations' = Append(invocations, [filePath |-> filePath, status |-> "awaiting"])
  /\ UNCHANGED <<appScanResult, notApp>>

\* a report of a scan the main process is running: every subscription still
\* registered runs its callback
ScanProgressEvent(progressData) ==
  /\ Awaiting # {}
  /\ appProgress' = progressData.progress
  /\ currentFile' = progressData.message
  /\ UNCHANGED <<appState, appScanResult, error, invocations, notApp>>

\* handleFileSelect from the settling of scanPackage to its end
ScanPackageSettles(i, outcome) ==
  /\ i \in Awaiting
  /\ appProgress' = IF outcome = "rejected" THEN appProgress ELSE 100
  /\ IF outcome = "success"
        THEN /\ appScanResult' = <<[scan |-> i, filePath |-> invocations[i].filePath]>>
             /\ appState' = "completed"
             /\ error' = error
        ELSE /\ error' = <<"scan failed">>
             /\ appState' = "error"
             /\ appScanResult' = appScanResult
  /\ invocations' = [invocations EXCEPT ![i].status = "settled"]
  /\ UNCHANGED <<currentFile, notApp>>

\* handleReset: the cancel button of the progress view, the reset button of
\* the result view, the retry button of the error box
HandleReset ==
  /\ appState \in {"scanning", "completed", "error"}
  /\ appState' = "idle"
  /\ appScanResult' = <<>>
  /\ error' = <<>>
  /\ appProgress' = 0
  /\ currentFile' = ""
  /\ UNCHANGED <<invocations, notApp>>

SelectFile == \E filePath \in PackagePaths : HandleFileSelect(filePath)

ReceiveProgress == \E progressData \in ProgressReports : ScanProgressEvent(progressData)

SettleScan == \E i \in 1..MaxSelections : \E outcome \in ScanOutcomes : ScanPackageSettles(i, outcome)

NextApp ==
  \/ SelectFile
  \/ ReceiveProgress
  \/ SettleScan
  \/ HandleReset

Init == InitExtract /\ InitScan /\ InitRules /\ InitAnalyze /\ InitApp

SpecExtract == Init /\ [][NextExtract]_vars

SpecScan == Init /\ [][NextScan]_vars

SpecParser == Init /\ [][NextParser]_vars

SpecPatternRules == Init /\ [][NextPatternRules]_vars

SpecExtensionRules == Init /\ [][NextExtensionRules]_vars

SpecPresetRules == Init /\ [][NextPresetRules]_vars

SpecDefaultScan == Init /\ [][NextDefaultScan]_vars

SpecAnalyze == Init /\ [][NextAnalyze]_vars

SpecApp == Init /\ [][NextApp]_vars

\* Pending I/O always settles and its continuation runs; nothing obliges the
\* user to start a scan, close the windows or quit.
FairSpecScan ==
  /\ SpecScan
  /\ \A s \in Scans : WF_vars(ScanStep(s))
  /\ WF_vars(CleanupAllStep)

\* --- what the claims about the filter speak of

\* the entry path has a ".." segment at some position
HasDotDotSegment(p) == \E i \in 1..Len(Split(p)) : Split(p)[i] = DotDot

\* path.resolve(scratchDir, p) lies outside the scratch directory: p is
\* absolute, or its normal form climbs above the directory it starts in.
Escapes(p) ==
  \/ IsAbsolute(p)
  \/ LET n == NormalizeSegs(Split(p), 1, <<>>, TRUE)
     IN Len(n) > 0 /\ n[1] = DotDot

\* C1: every entry that resolves outside the destination root is skipped
\* by the extraction.
C1_EscapingEntrySkipped ==
  (lastEntry # <<>> /\ Escapes(lastEntry)) => ~lastKept

\* C2: the filter rejects exactly the entry paths that contain a ".."
\* segment (leading, interior or trailing) and accepts all others.
C2_FilterRejectsEveryDotDot ==
  lastEntry # <<>> => (lastKept <=> ~HasDotDotSegment(lastEntry))

\* C3: every scratch directory a scan created is eventually deleted, and is
\* deleted exactly once, whether the scan succeeded or failed.
C3_ScratchDirDeletedExactlyOnce ==
  /\ \A s \in Scans : dirCreated[s] ~> ~dirExists[s]
  /\ [](\A s \in Scans : removals[s] <= 1)

\* C4 as stated: once a scan has failed because decompression failed, the
\* caller holds exactly one error and the scratch directory is gone.
C4_NoScratchDirAfterExtractFailure ==
  \A s \in Scans :
    (pc[s] = "failed" /\ cause[s] = "extract") =>
      /\ replies[s] = <<"error">>
      /\ ~dirExists[s]

\* C4 as amended: once a scan has failed because decompression failed, the
\* caller holds exactly one error, and the scratch directory is gone unless
\* the removal itself failed (which cleanup logs and swallows).
C4_ExtractFailureCleansUpUnlessRemoveFails ==
  \A s \in Scans :
    (pc[s] = "failed" /\ cause[s] = "extract") =>
      /\ replies[s] = <<"error">>
      /\ dirExists[s] => removeFailed[s]

\* a scan whose decompression failed, whose directory cleanup then removed,
\* and whose error has reached the caller
C4_Witness ==
  \E s \in Scans :
    /\ pc[s] = "failed" /\ cause[s] = "extract"
    /\ dirCreated[s] /\ ~dirExists[s] /\ removals[s] = 1
    /\ ~removeFailed[s]
    /\ replies[s] = <<"error">>

\* C5: every progress event a scan reports is delivered to the sink that
\* was supplied for that scan, never to the sink of another scan.
C5_EventsReachOnlyOwnSink ==
  \A s \in Scans : sinks[s] \subseteq {s}

\* C6: no consumer can delay or abort a scan: the event loop is never stuck
\* in a consumer and no scan fails because its consumer threw.
C6_ConsumerCannotDelayOrAbort ==
  /\ ~blocked
  /\ \A s \in Scans : cause[s] # "consumer"

\* --- what the claims about the rule stores speak of

\* the matcher scans with patterns a load returned, and the detector holds
\* the extension rules of a parsed definition file
RulesLoaded ==
  /\ aliased
  /\ currentPatternFile # <<>>
  /\ currentDefinitionFile # <<>>
  /\ extensionRules.defined

\* C7: once rules are loaded, scanFiles returns a findings list and never
\* throws, whatever loads, presets, toggles and custom patterns came before.
C7_ScanFilesNeverThrows ==
  (lastOp.op = "scanFiles" /\ RulesLoaded) => scanResult.outcome = "returned"

LoadOps == {"loadPatterns", "loadExtensionDefinitions"}

ReadSourceOf(op) ==
  IF op.op = "loadPatterns" THEN ReadPatternSource(op.src)
                            ELSE ReadExtensionSource(op.src)

\* the source is unreadable, malformed, or lacks version, name or categories
SourceInvalid(op) ==
  LET r == ReadSourceOf(op)
  IN \/ ~r.read
     \/ ~r.json
     \/ ~r.doc.hasVersion
     \/ ~r.doc.hasName
     \/ ~r.doc.hasCategories

IsRuleSourceInvalid(err) ==
  err # <<>> /\ Head(err) \in {"PatternLoadFailed", "ExtensionLoadFailed"}

IsPresetNotFound(err) == err # <<>> /\ Head(err) = "PresetNotFound"

\* C8: a load of a source that is unreadable, malformed or lacks a required
\* top-level field (version, name, category map) fails with the load error
\* and returns no rule set.
C8_InvalidSourceFailsLoad ==
  (lastOp.op \in LoadOps /\ SourceInvalid(lastOp)) => IsRuleSourceInvalid(ruleError)

\* the document does not define the preset name (or has no presets at all)
PresetUndefinedIn(doc, presetName) ==
  ~doc.hasPresets \/ presetName \notin Keys(doc.presets)

\* C9: loading with, or applying, a preset name the current source does not
\* define fails with the preset-not-found error itself, not with the load
\* error and not with any other error, in both stores.
C9_UnknownPresetFailsWithPresetNotFound ==
  /\ (/\ lastOp.op \in LoadOps
      /\ lastOp.preset # ""
      /\ ~SourceInvalid(lastOp)
      /\ PresetUndefinedIn(ReadSourceOf(lastOp).doc, lastOp.preset))
       => IsPresetNotFound(ruleError)
  /\ (/\ lastOp.op = "applyPreset"
      /\ currentDefinitionFile # <<>>
      /\ PresetUndefinedIn(currentDefinitionFile[1], lastOp.preset))
       => IsPresetNotFound(ruleError)

\* C10: after a load with content preset P the matcher's rules are exactly
\* the compiled rules of the file whose category P enables and the file
\* defines, without the rules P excludes by name; and applying a preset the
\* file defines never fails, whatever category names it lists.
C10_PresetSelectsEnabledMinusExcluded ==
  /\ (lastOp.op = "loadPatterns" /\ lastOp.preset # "" /\ ruleError = NoError) =>
       LET doc == currentPatternFile[1]
           P == OwnValue(doc.presets, lastOp.preset)
           all == Range(CompilePatterns(doc).patterns)
       IN Range(patterns) =
            {r \in all : /\ r.category \in Range(P.enabledCategories)
                         /\ r.category \in Keys(doc.categories)
                         /\ P.hasExclude => r.name \notin Range(P.excludePatterns)}
  /\ (/\ lastOp.op = "loadPatterns"
      /\ ~UnparsedSource(ReadPatternSource(lastOp.src))
      /\ ReadPatternSource(lastOp.src).doc.hasCategories
      /\ ~PresetUndefinedIn(ReadPatternSource(lastOp.src).doc, lastOp.preset))
       => ruleError = NoError

\* a load with the preset "relaxed" returned: it lists a category the file
\* does not define and excludes rules the file compiles
C10_Witness ==
  /\ lastOp.op = "loadPatterns"
  /\ lastOp.preset = "relaxed"
  /\ ruleError = NoError
  /\ LET doc == currentPatternFile[1]
         P == OwnValue(doc.presets, "relaxed")
     IN /\ \E c \in Range(P.enabledCategories) : c \notin Keys(doc.categories)
        /\ \E r \in Range(CompilePatterns(doc).patterns) :
              r.name \in Range(P.excludePatterns)
        /\ patterns # <<>>

\* C11: after an extension preset P was applied (by applyPreset or by a load
\* that names it), the enabled extensions are exactly those P lists,
\* whatever was enabled before.
C11_PresetReplacesEnabledExtensions ==
  (/\ lastOp.op \in {"applyPreset", "loadExtensionDefinitions"}
   /\ lastOp.preset # ""
   /\ ruleError = NoError
   /\ ~PresetUndefinedIn(currentDefinitionFile[1], lastOp.preset))
    => enabledExtensions =
         Range(OwnValue(currentDefinitionFile[1].presets, lastOp.preset).enabledExtensions)

\* applyPreset("minimal") returned and left only what "minimal" lists
C11_Witness ==
  /\ lastOp.op = "applyPreset"
  /\ lastOp.preset = "minimal"
  /\ ruleError = NoError
  /\ enabledExtensions = {"dll"}

\* the two paths are the same up to the letter case of the extension
SameButExtensionCase(p, q) ==
  /\ Len(p) = Len(q)
  /\ Len(p) >= 2
  /\ p[Len(p) - 1] = "."
  /\ \A i \in 1..(Len(p) - 1) : p[i] = q[i]
  /\ ToLowerCase(p[Len(p)]) = ToLowerCase(q[Len(q)])

\* what the extension findings of the last scan say about the file at `path`
ExtensionFindingsOf(path) ==
  {[severity |-> f.severity, category |-> f.category, pattern |-> f.pattern] :
     f \in {g \in Range(scanResult.findings) : g.lineNumber = 0 /\ g.filePath = path}}

\* C12: two scanned files whose paths differ only in the letter case of the
\* extension get equivalent extension findings (the same rule, severity and
\* category, or none for both), however the extension was enabled.
C12_ExtensionCaseIgnored ==
  (lastOp.op = "scanFiles" /\ scanResult.outcome = "returned") =>
    \A i, j \in 1..Len(scanResult.files) :
      SameButExtensionCase(scanResult.files[i].path, scanResult.files[j].path)
        => ExtensionFindingsOf(scanResult.files[i].path)
             = ExtensionFindingsOf(scanResult.files[j].path)

\* lib.DLL and lib.dll were scanned together and both were reported
C12_Witness ==
  /\ lastOp.op = "scanFiles"
  /\ scanResult.outcome = "returned"
  /\ \E i, j \in 1..Len(scanResult.files) :
       /\ i # j
       /\ SameButExtensionCase(scanResult.files[i].path, scanResult.files[j].path)
       /\ ExtensionFindingsOf(scanResult.files[i].path) # {}
       /\ ExtensionFindingsOf(scanResult.files[j].path) # {}

\* C13: no two rules the matcher scans with have the same name.
C13_RuleNamesUnique ==
  \A i, j \in 1..Len(patterns) : i # j => patterns[i].name # patterns[j].name

\* C14: the rules the store holds are rules it compiled itself: no
\* operation on the matcher, addCustomPatterns included, puts a custom
\* pattern into the store's loadedPatterns.
C14_StoreHoldsOnlyCompiledRules ==
  \A i \in 1..Len(loadedPatterns) : loadedPatterns[i].name \notin CustomNames

\* where the scanned file with this path stands in the list that was scanned
FileIndex(path) ==
  CHOOSE i \in 1..Len(scanResult.files) : scanResult.files[i].path = path

\* the rules of the loaded document in the order the document declares them
DeclaredRules == CompilePatterns(currentPatternFile[1]).patterns

IsDeclared(name) == \E i \in 1..Len(DeclaredRules) : DeclaredRules[i].name = name

DeclarationIndex(name) ==
  CHOOSE i \in 1..Len(DeclaredRules) : DeclaredRules[i].name = name

\* C15: in the findings scanFiles returns, extension findings come before
\* content findings and follow the order of the input files; content
\* findings are ordered by input file, then line, then the order in which
\* the rule document declares the rules, with or without a preset.
C15_FindingsOrdered ==
  (/\ lastOp.op = "scanFiles"
   /\ scanResult.outcome = "returned"
   /\ currentPatternFile # <<>>
   /\ currentPatternFile[1].hasCategories) =>
    LET fs == scanResult.findings
    IN \A i, j \in 1..Len(fs) : i < j =>
         /\ fs[j].lineNumber = 0 => fs[i].lineNumber = 0
         /\ (fs[i].lineNumber = 0 /\ fs[j].lineNumber = 0)
              => FileIndex(fs[i].filePath) <= FileIndex(fs[j].filePath)
         /\ (fs[i].lineNumber > 0 /\ fs[j].lineNumber > 0)
              => /\ FileIndex(fs[i].filePath) <= FileIndex(fs[j].filePath)
                 /\ fs[i].filePath = fs[j].filePath
                      => fs[i].lineNumber <= fs[j].lineNumber
                 /\ (/\ fs[i].filePath = fs[j].filePath
                     /\ fs[i].lineNumber = fs[j].lineNumber
                     /\ IsDeclared(fs[i].pattern)
                     /\ IsDeclared(fs[j].pattern))
                      => DeclarationIndex(fs[i].pattern) <= DeclarationIndex(fs[j].pattern)

\* the matches of all active rules called `name` on the line, rule by rule
RECURSIVE SumMatches(_, _, _)
SumMatches(k, name, line) ==
  IF k > Len(patterns) THEN 0
  ELSE (IF patterns[k].name = name THEN MatchCount(patterns[k].regex, line) ELSE 0)
       + SumMatches(k + 1, name, line)

\* the findings of the last scan for this file, line and rule name
FindingsAt(path, lineNumber, name) ==
  {i \in 1..Len(scanResult.findings) :
     /\ scanResult.findings[i].filePath = path
     /\ scanResult.findings[i].lineNumber = lineNumber
     /\ scanResult.findings[i].pattern = name}

ScannedScripts ==
  {f \in Range(scanResult.files) : f.type = "script" /\ HasTruthyContent(f)}

\* C16: for every non-comment line of every scanned script and every active
\* rule, the findings number exactly the matches of the rule on that line:
\* nothing is merged or dropped, so each copy of a file adds its own.
C16_OneFindingPerMatch ==
  (lastOp.op = "scanFiles" /\ scanResult.outcome = "returned") =>
    \A f \in ScannedScripts :
      LET lines == SplitLines(f.content, 1, <<>>)
      IN \A n \in 1..Len(lines) : \A k \in 1..Len(patterns) :
           Cardinality(FindingsAt(f.path, n, patterns[k].name)) =
             IF IsCommentLine(lines[n]) THEN 0
             ELSE SumMatches(1, patterns[k].name, lines[n])

\* two copies of a script were scanned; a rule matched twice on one line of
\* each and was reported twice for each
C16_Witness ==
  /\ lastOp.op = "scanFiles"
  /\ scanResult.outcome = "returned"
  /\ \E f, g \in ScannedScripts :
       /\ f.path # g.path
       /\ f.content = g.content
       /\ \E n \in 1..Len(SplitLines(f.content, 1, <<>>)) :
            \E k \in 1..Len(patterns) :
              /\ Cardinality(FindingsAt(f.path, n, patterns[k].name)) = 2
              /\ Cardinality(FindingsAt(g.path, n, patterns[k].name)) = 2

\* the findings of the last scan that come from matching file content
ContentFindings == {f \in Range(scanResult.findings) : f.lineNumber > 0}

\* the lines of the scanned script with this path
LinesOf(path) ==
  SplitLines((CHOOSE f \in ScannedScripts : f.path = path).content, 1, <<>>)

\* a content finding names a scanned script and one of its lines, counted
\* from 1
PointsAtLine(f) ==
  /\ \E g \in ScannedScripts : g.path = f.filePath
  /\ f.lineNumber \in 1..Len(LinesOf(f.filePath))

\* the line between its first and its last token that is not white space
WithoutOuterBlanks(line) ==
  LET I == {i \in 1..Len(line) : line[i] \notin Whitespace}
  IN IF I = {} THEN <<>>
     ELSE SubSeq(line, CHOOSE i \in I : \A j \in I : i <= j,
                       CHOOSE i \in I : \A j \in I : j <= i)

\* C17 as stated: every content finding carries the path of the scanned
\* file, the 1-based number of the line that matched, and that line's exact
\* text as context.
C17_ContextIsExactLine ==
  (lastOp.op = "scanFiles" /\ scanResult.outcome = "returned") =>
    \A f \in ContentFindings :
      /\ PointsAtLine(f)
      /\ f.context = LinesOf(f.filePath)[f.lineNumber]

\* C17 amended: the context is that line without its leading and trailing
\* white space.
C17_ContextIsTrimmedLine ==
  (lastOp.op = "scanFiles" /\ scanResult.outcome = "returned") =>
    \A f \in ContentFindings :
      /\ PointsAtLine(f)
      /\ f.context = WithoutOuterBlanks(LinesOf(f.filePath)[f.lineNumber])

\* a match on an indented line was reported, its context without the
\* indentation
C17_Witness ==
  /\ lastOp.op = "scanFiles"
  /\ scanResult.outcome = "returned"
  /\ \E f \in ContentFindings :
       /\ PointsAtLine(f)
       /\ f.lineNumber = 3
       /\ Head(LinesOf(f.filePath)[3]) \in Whitespace
       /\ f.context # LinesOf(f.filePath)[3]
       /\ f.context = WithoutOuterBlanks(LinesOf(f.filePath)[3])

\* C18: the summary of a findings list counts every finding once: total is
\* the length of the list, and the critical, warning and info counts add up
\* to it.
C18_SummaryCountsEveryFinding ==
  (lastOp.op = "scanFiles" /\ scanResult.outcome = "returned") =>
    /\ scanResult.summary.total = Len(scanResult.findings)
    /\ scanResult.summary.critical + scanResult.summary.warning
         + scanResult.summary.info = scanResult.summary.total

\* a scan returned findings of all three severities
C18_Witness ==
  /\ lastOp.op = "scanFiles"
  /\ scanResult.outcome = "returned"
  /\ scanResult.summary.critical > 0
  /\ scanResult.summary.warning > 0
  /\ scanResult.summary.info > 0

(***************************************************************************)
(* The analyzer of the unpacked archive.                                   *)
(***************************************************************************)

\* the entries looked at that are directories named by 32 hex digits and
\* hold an `asset`
ValidDirs ==
  {i \in 1..Len(guidDirs) :
     /\ guidDirs[i].isDirectory
     /\ guidDirs[i].hasAsset
     /\ Len(guidDirs[i].name) = GuidLength
     /\ \A j \in 1..GuidLength : guidDirs[i].name[j] \in HexChars}

\* the reported files that stand for the i-th entry
ReportsOf(i) ==
  {k \in 1..Len(analyzedFiles) : analyzedFiles[k].guid = guidDirs[i].name}

\* a path made of the directory's identifier between "[GUID:" and "]"
IsPlaceholderFor(p, name) ==
  Len(p) = Len(name) + 2 /\ p[1] = "[GUID:" /\ p[Len(p)] = "]" /\
  SubSeq(p, 2, Len(p) - 1) = name

PathnameReadable(i) == guidDirs[i].pathname \notin {"absent", "unreadable"}

TrimmedPathname(i) == WithoutOuterBlanks(PathnameContent(guidDirs[i].pathname))

ReportedScripts ==
  {p \in (1..Len(guidDirs)) \X (1..Len(analyzedFiles)) :
     /\ analyzedFiles[p[2]].guid = guidDirs[p[1]].name
     /\ analyzedFiles[p[2]].type = "script"}

AtOrAboveCeiling(p) == analyzedFiles[p[2]].size >= ScriptMaxSize

HasDecodedPayload(p) ==
  /\ analyzedFiles[p[2]].hasContent
  /\ analyzedFiles[p[2]].content = DecodeUtf8(AssetPayload(guidDirs[p[1]].size))

\* C20 as stated: a script at or above 1,048,576 bytes has no content and its
\* payload is never read; every script below has the decoded payload as
\* content.
C20_ContentIffBelowCeiling ==
  \A p \in ReportedScripts :
    IF AtOrAboveCeiling(p)
    THEN ~analyzedFiles[p[2]].hasContent /\ ~guidDirs[p[1]].assetRead
    ELSE HasDecodedPayload(p)

\* C20 (amended): a script at or above 1,048,576 bytes has no content and its
\* payload is never read; a script below has the decoded payload as content
\* when the payload can be read, and no content when reading it fails.
C20_ContentIffBelowCeilingAndReadable ==
  \A p \in ReportedScripts :
    IF AtOrAboveCeiling(p)
    THEN ~analyzedFiles[p[2]].hasContent /\ ~guidDirs[p[1]].assetRead
    ELSE IF guidDirs[p[1]].readable
         THEN HasDecodedPayload(p)
         ELSE ~analyzedFiles[p[2]].hasContent

\* a finished analysis with a script of exactly the ceiling, left unread, and
\* one a byte smaller whose content is the decoded payload
C20_Witness ==
  /\ analyzeState = "done"
  /\ \E p, q \in ReportedScripts :
       /\ analyzedFiles[p[2]].size = ScriptMaxSize
       /\ ~analyzedFiles[p[2]].hasContent /\ ~guidDirs[p[1]].assetRead
       /\ analyzedFiles[q[2]].size = ScriptMaxSize - 1
       /\ guidDirs[q[1]].assetRead
       /\ analyzedFiles[q[2]].content = <<"using", "U+FFFD">>

\* the i-th entry is named by 32 hex digits
NamedByGuid(i) ==
  /\ Len(guidDirs[i].name) = GuidLength
  /\ \A j \in 1..GuidLength : guidDirs[i].name[j] \in HexChars

\* reading something of the i-th entry, a GUID directory, met an I/O failure:
\* its pathname, its payload, or its file information
HadReadFailure(i) ==
  /\ NamedByGuid(i)
  /\ \/ guidDirs[i].pathname = "unreadable"
     \/ ~guidDirs[i].readable
     \/ guidDirs[i].statFailed # "none"

\* C21: an I/O failure while reading one asset (payload, pathname or file
\* information) never fails the analysis; the asset is listed once without
\* content and every other asset seen is listed as well.
C21_AssetReadFailureNeverFailsResolve ==
  \A i \in 1..Len(guidDirs) :
    HadReadFailure(i) =>
      /\ analyzeState # "failed"
      /\ Cardinality(ReportsOf(i)) = 1
      /\ \A k \in ReportsOf(i) : ~analyzedFiles[k].hasContent
      /\ \A j \in ValidDirs : Cardinality(ReportsOf(j)) = 1

(***************************************************************************)
(* Progress reporting of the scan orchestration.                           *)
(***************************************************************************)

\* the stages a scan enters before it is complete
StagesEntered == {"extracting", "analyzing", "scanning"}

\* C22: every successful scan reported an event in each of the stages
\* extracting, analyzing and scanning, and its last event is completed / 100.
C22_ProgressAtEveryStageBoundary ==
  \A s \in Scans :
    pc[s] = "done" =>
      /\ \A stage \in StagesEntered :
           \E i \in 1..Len(events[s]) : events[s][i].stage = stage
      /\ Len(events[s]) > 0
      /\ events[s][Len(events[s])] = [stage |-> "completed", progress |-> 100]

\* the order of the stages of a scan
StageRank(stage) ==
  CASE stage = "extracting" -> 1
    [] stage = "analyzing" -> 2
    [] stage = "scanning" -> 3
    [] stage = "completed" -> 4

IsCompletedEvent(e) == e.stage = "completed" \/ e.progress = 100

\* C26: the events of a scan never go down in percentage (which stays within
\* 0..100) nor back in stage, and a completed / 100 event is the last event
\* of its scan and belongs to a scan that does not end in failure.
C26_ProgressMonotoneAndCompletedOnlyOnSuccess ==
  \A s \in Scans :
    /\ \A i \in 1..Len(events[s]) : events[s][i].progress \in 0..100
    /\ \A i, j \in 1..Len(events[s]) :
         i < j => /\ events[s][i].progress <= events[s][j].progress
                  /\ StageRank(events[s][i].stage) <= StageRank(events[s][j].stage)
    /\ \A i \in 1..Len(events[s]) :
         IsCompletedEvent(events[s][i]) =>
           i = Len(events[s]) /\ pc[s] # "failed"

\* scan s is extracting into its scratch directory or resolving its content
Running(s) == pc[s] \in {"extract", "analyze"}

\* C27: the scratch directory of a scan that is still extracting or resolving
\* exists, whatever cleanup another scan or an application event started.
C27_RunningScanKeepsScratchDir ==
  \A s \in Scans : Running(s) => dirExists[s]

(***************************************************************************)
(* Presets and loads of the rule stores.                                   *)
(***************************************************************************)

\* the last call applied a preset (by itself or with a load) and returned
PresetApplied(op) ==
  lastOp.op = op /\ lastOp.preset # "" /\ ruleError = NoError

\* C23: once a preset has been applied, applying the same preset again (the
\* same applyPreset, or the same load with that preset) returns and leaves
\* the enabled extensions, or the active rules, as they are.
C23_PresetApplicationIdempotent ==
  /\ PresetApplied("applyPreset") =>
       ExtensionApplyPreset(lastOp.preset, currentDefinitionFile, enabledExtensions)
         = [error |-> NoError, enabled |-> enabledExtensions]
  /\ PresetApplied("loadExtensionDefinitions") =>
       /\ ExtensionApplyPreset(lastOp.preset, currentDefinitionFile,
                               enabledExtensions)
            = [error |-> NoError, enabled |-> enabledExtensions]
       /\ LET e == LoadExtensionDefinitions(lastOp.src, lastOp.preset,
                     currentDefinitionFile, extensionRules, enabledExtensions)
          IN e.error = NoError /\ e.enabled = enabledExtensions
  /\ PresetApplied("loadPatterns") =>
       LET l == LoadPatternsWithPreset(lastOp.src, lastOp.preset,
                                       currentPatternFile, loadedPatterns)
       IN l.error = NoError /\ l.loaded = loadedPatterns /\ l.loaded = patterns

\* the preset `minimal` was applied on top of other enabled extensions, and
\* `relaxed` was applied to the content rules
C23_Witness ==
  /\ lastOp = Op("applyPreset", "", "minimal")
  /\ ruleError = NoError
  /\ enabledExtensions = {"dll"}
  /\ Len(patterns) > 0
  /\ \A i \in 1..Len(patterns) : patterns[i].name # <<"Socket">>

\* what the two stores hold: the active rules, the enabled extensions and
\* the documents the source info is reported from
StoreContent ==
  <<currentPatternFile, loadedPatterns, patterns,
    currentDefinitionFile, extensionRules, enabledExtensions>>

\* C25: a load that fails leaves the content of the stores as it was, and a
\* load that returns leaves what the same load gives on a store never loaded
\* before.
C25_StoreFollowsLastSuccessfulLoad ==
  [][ /\ (lastOp'.op \in {"loadPatterns", "loadExtensionDefinitions"}
           /\ ruleError' # NoError)
        => UNCHANGED StoreContent
      /\ (lastOp'.op = "loadPatterns" /\ ruleError' = NoError)
        => LET l == IF lastOp'.preset # ""
                    THEN LoadPatternsWithPreset(lastOp'.src, lastOp'.preset, <<>>, <<>>)
                    ELSE LoadPatternsFromFile(lastOp'.src, <<>>, <<>>)
           IN /\ currentPatternFile' = l.file
              /\ loadedPatterns' = l.loaded
              /\ patterns' = l.loaded
      /\ (lastOp'.op = "loadExtensionDefinitions" /\ ruleError' = NoError)
        => LET e == LoadExtensionDefinitions(lastOp'.src, lastOp'.preset, <<>>,
                      [defined |-> TRUE, rules |-> <<>>], {})
           IN /\ currentDefinitionFile' = e.file
              /\ extensionRules' = e.rules
              /\ enabledExtensions' = e.enabled
    ]_vars

(***************************************************************************)
(* Enabled extensions and the findings they give.                          *)
(***************************************************************************)

\* the lower-cased extension of a path ("" when it has none)
LoweredExtension(path) ==
  IF Len(path) >= 2 /\ path[Len(path) - 1] = "." /\ path[Len(path)] # "."
  THEN ToLowerCase(path[Len(path)]) ELSE ""

\* how many extension findings the last scan gave for the file at `path`
NumExtensionFindings(path) ==
  Cardinality({k \in 1..Len(scanResult.findings) :
                 /\ scanResult.findings[k].lineNumber = 0
                 /\ scanResult.findings[k].filePath = path})

\* an enabled extension that a file can have and that has a rule to report
ProducesFindings(x) ==
  /\ ToLowerCase(x) = x
  /\ extensionRules.defined
  /\ \E k \in 1..Len(extensionRules.rules) : extensionRules.rules[k].key = x

\* C29: a scanned file has exactly one extension finding when its lower-cased
\* extension is enabled and none otherwise, and every enabled extension is
\* one that produces findings.
C29_EnabledExtensionsProduceFindings ==
  /\ (lastOp.op = "scanFiles" /\ scanResult.outcome = "returned") =>
       \A i \in 1..Len(scanResult.files) :
         LET path == scanResult.files[i].path
         IN NumExtensionFindings(path) =
              (IF LoweredExtension(path) # "" /\
                  LoweredExtension(path) \in enabledExtensions THEN 1 ELSE 0)
  /\ \A x \in enabledExtensions : ProducesFindings(x)

(***************************************************************************)
(* Finding ids.                                                            *)
(***************************************************************************)

\* the findings of the last scan are extension findings followed by
\* content findings
ExtensionFindingsFirst ==
  \A i, j \in 1..Len(scanResult.findings) :
    (scanResult.findings[i].lineNumber = 0 /\ scanResult.findings[j].lineNumber > 0)
      => i < j

\* C30: in a scan result the ids are pairwise distinct, the i-th finding of
\* the merged list has the decimal string of i as id, and scanning the same
\* files with the same rules again gives the same findings with the same ids.
C30_IdsArePositionsAndStable ==
  (lastOp.op = "scanFiles" /\ scanResult.outcome = "returned") =>
    /\ ExtensionFindingsFirst
    /\ \A i \in 1..Len(scanResult.findings) :
         scanResult.findings[i].id = NumberToString(i)
    /\ \A i, j \in 1..Len(scanResult.findings) :
         i # j => scanResult.findings[i].id # scanResult.findings[j].id
    /\ MatcherScanFiles(scanResult.files, patterns, extensionRules,
                        enabledExtensions)
         = [threw |-> FALSE, findings |-> scanResult.findings]

\* a scan that returned an extension finding, with the id "1", followed by
\* content findings, the last with the id "7"
C30_Witness ==
  /\ lastOp.op = "scanFiles"
  /\ scanResult.outcome = "returned"
  /\ Len(scanResult.findings) = 7
  /\ scanResult.findings[1].lineNumber = 0
  /\ scanResult.findings[1].id = <<"1">>
  /\ scanResult.findings[2].lineNumber > 0
  /\ scanResult.findings[7].id = <<"7">>

(***************************************************************************)
(* The scan of a package with the shipped rules.                           *)
(***************************************************************************)

\* the matcher holds the shipped rules, and the last call scanned a package
\* made of the script with the request line and the dynamic library
ScannedScenarioA ==
  /\ lastOp.op = "scanFiles"
  /\ scanResult.outcome = "returned"
  /\ currentPatternFile = <<DefaultPatternDocument>>
  /\ currentDefinitionFile = <<DefaultExtensionDocument>>
  /\ Len(scanResult.files) = 2
  /\ \E i, j \in 1..2 :
       /\ scanResult.files[i].path = <<"Assets", "/", "Scripts", "/", "Net", ".", "cs">>
       /\ scanResult.files[j].path = <<"Assets", "/", "Plugins", "/", "lib", ".", "dll">>

\* the findings of the last scan that satisfy Test
FindingsWhere(Test(_)) ==
  {k \in 1..Len(scanResult.findings) : Test(scanResult.findings[k])}

IsNetworkFinding(f) == f.category = "network"

IsLibraryFinding(f) ==
  f.lineNumber = 0 /\ f.filePath = <<"Assets", "/", "Plugins", "/", "lib", ".", "dll">>

IsRequestFinding(f) == f.category = "network" /\ f.pattern = <<"UnityWebRequest">>

IsUrlFinding(f) == f.category = "network" /\ f.pattern = <<"URL">>

Settles(i) ==
  /\ i \in Awaiting
  /\ invocations'[i].status = "settled"

\* C28: once a running scan is cancelled the interface stays idle, with no
\* result and no error, until a new file is selected, and when the cancelled
\* scan completes or fails later it moves the interface neither to completed
\* nor to error and leaves the state of a scan started afterwards as it is.
C28_CancelledScanNeverTouchesUI ==
  [][ /\ (appState = "idle" /\ Len(invocations') = Len(invocations))
          => (appState' = "idle" /\ appScanResult' = <<>> /\ error' = <<>>)
      /\ \A i \in 1..Len(invocations) :
            (appState = "scanning" /\ i < Len(invocations) /\ Settles(i))
              => (/\ appState' = "scanning"
                  /\ appScanResult' = appScanResult
                  /\ error' = error
                  /\ appProgress' = appProgress) ]_vars
====
